---- MODULE Spec2Model ----
(***************************************************************************)
(* The static analysers of Flutter_App: the heuristic UX scoring engine    *)
(* (industrial_ux_validator.py) and the line-oriented Dart linter          *)
(* (validate_dart.py), run over one project tree.                          *)
(*                                                                         *)
(* A Python str is a sequence of one-character strings, so that the        *)
(* substring tests, glob patterns and regular expressions of the source    *)
(* are computed on the text itself.                                        *)
(***************************************************************************)
EXTENDS Integers, Sequences, FiniteSets, TLC

VARIABLES
    tree,         \* the project tree: its files, in the order a tree walk yields them
    pubspec,      \* the project tree: the state of <root>/pubspec.yaml
    tool,         \* which entry point is running: "none", "ux", "lint", ...
    pc,           \* position inside the running entry point
    run,          \* how many calls have been started on the validator instance
    idx,          \* linter: number of dart_files already validated by the loop
    uxv,          \* the IndustrialUXValidator instance (its fields)
    dartv,        \* the DartValidator instance (its fields)
    source,       \* the text handed to a checker that is exercised on its own
    results,      \* the results dict of the call in progress (or last returned)
    first,        \* the results the first call returned
    flips         \* rule-outcome exploration: rules switched on so far

vars == <<tree, pubspec, tool, pc, run, idx, uxv, dartv, source, results, first, flips>>

----------------------------------------------------------------------------
(* Text                                                                    *)

\* sub in s  (str.__contains__)
In(sub, s) ==
    \E i \in 1..(Len(s) - Len(sub) + 1) :
        \A k \in 1..Len(sub) : s[i + k - 1] = sub[k]

\* s.startswith(p)
StartsWith(s, p) ==
    /\ Len(p) <= Len(s)
    /\ \A k \in 1..Len(p) : s[k] = p[k]

\* s.endswith(p)
EndsWith(s, p) ==
    /\ Len(p) <= Len(s)
    /\ \A k \in 1..Len(p) : s[Len(s) - Len(p) + k] = p[k]

\* s.count(c) for a one-character c
CountChar(s, c) == Cardinality({k \in 1..Len(s) : s[k] = c})

\* s[:n]
Take(s, n) == SubSeq(s, 1, IF n < Len(s) THEN n ELSE Len(s))

\* s[n+1:]
Drop(s, n) == SubSeq(s, n + 1, Len(s))

\* the characters str.strip() removes and the regex class \s matches
Whitespace == {" ", "\t", "\n", "\r", "\f"}

UpperLetters == <<"A","B","C","D","E","F","G","H","I","J","K","L","M","N","O","P","Q","R","S","T","U","V","W","X","Y","Z">>
LowerLetters == <<"a","b","c","d","e","f","g","h","i","j","k","l","m","n","o","p","q","r","s","t","u","v","w","x","y","z">>
Digits == <<"0","1","2","3","4","5","6","7","8","9">>

Range(s) == {s[k] : k \in 1..Len(s)}

UpperChars == Range(UpperLetters)
LowerChars == Range(LowerLetters)
\* the regex class \w
WordChars == Range(UpperLetters) \cup Range(LowerLetters) \cup Range(Digits) \cup {"_"}
\* the regex class [0-9A-Fa-f]
HexChars == Range(Digits) \cup Range(<<"A","B","C","D","E","F","a","b","c","d","e","f">>)

IsUpper(c) == c \in UpperChars
IsLower(c) == c \in LowerChars
IsWord(c) == c \in WordChars
IsSpace(c) == c \in Whitespace
IsHex(c) == c \in HexChars

LowerChar(c) ==
    IF IsUpper(c)
    THEN LowerLetters[CHOOSE k \in 1..Len(UpperLetters) : UpperLetters[k] = c]
    ELSE c

\* s.lower()
Lower(s) == [k \in 1..Len(s) |-> LowerChar(s[k])]

\* the first position >= k of s whose character is not in the class, Len(s)+1 if none
SkipWhile(s, k, class) ==
    IF k > Len(s) THEN k
    ELSE CHOOSE j \in k..(Len(s) + 1) :
            /\ j = Len(s) + 1 \/ s[j] \notin class
            /\ \A i \in k..(j - 1) : s[i] \in class

\* s.strip()
Strip(s) ==
    LET a == SkipWhile(s, 1, Whitespace) IN
    IF a > Len(s) THEN << >>
    ELSE SubSeq(s, a, CHOOSE b \in a..Len(s) :
                         /\ ~IsSpace(s[b])
                         /\ \A i \in (b + 1)..Len(s) : IsSpace(s[i]))

\* s.split('\n'): the pieces between the newlines, in order (always at least one)
SplitLines(s) ==
    LET nl == {k \in 1..Len(s) : s[k] = "\n"}
        \* the position of the i-th newline; 0 and Len(s)+1 bracket the text
        at(i) == IF i = 0 THEN 0
                 ELSE IF i > Cardinality(nl) THEN Len(s) + 1
                 ELSE CHOOSE p \in nl : Cardinality({q \in nl : q <= p}) = i
    IN  [i \in 1..(Cardinality(nl) + 1) |-> SubSeq(s, at(i - 1) + 1, at(i) - 1)]

\* '\n'.join(lines)
RECURSIVE JoinLines(_)
JoinLines(lines) ==
    IF lines = << >> THEN << >>
    ELSE IF Len(lines) = 1 THEN lines[1]
    ELSE lines[1] \o <<"\n">> \o JoinLines(Tail(lines))

\* fnmatch of a file name against a glob pattern whose only wildcard is '*'
\* (pathlib matches case-sensitively on POSIX)
RECURSIVE GlobMatch(_, _)
GlobMatch(pat, name) ==
    IF pat = << >> THEN name = << >>
    ELSE IF Head(pat) = "*"
         THEN \E k \in 0..Len(name) : GlobMatch(Tail(pat), Drop(name, k))
         ELSE /\ name # << >>
              /\ Head(name) = Head(pat)
              /\ GlobMatch(Tail(pat), Tail(name))

----------------------------------------------------------------------------
(* The project tree                                                        *)
(*                                                                         *)
(* A file is [name, readable, content]: its base name, whether open()/     *)
(* read() succeed on it (a file that does not decode, or a directory whose *)
(* name matches the pattern, is not readable) and its text.                *)

MaxFiles == 3      \* most Dart files in one project tree
MaxRuns == 2       \* most calls made on one validator instance

PremiumThemeColors ==
    [name |-> <<"p","r","e","m","i","u","m","_","t","h","e","m","e","_","c","o","l","o","r","s",".","d","a","r","t">>, readable |-> TRUE,
     content |-> JoinLines(<<
        <<"i","m","p","o","r","t"," ","'","p","a","c","k","a","g","e",":","f","l","u","t","t","e","r","/","m","a","t","e","r","i","a","l",".","d","a","r","t","'",";">>,
        <<"c","l","a","s","s"," ","P","r","e","m","i","u","m","T","h","e","m","e","C","o","l","o","r","s"," ","{">>,
        <<" "," ","s","t","a","t","i","c"," ","f","i","n","a","l"," ","d","a","r","k"," ","="," ","T","h","e","m","e","D","a","t","a",".","d","a","r","k","(",")",";">>,
        <<" "," ","s","t","a","t","i","c"," ","c","o","n","s","t"," ","a"," ","="," ","C","o","l","o","r","(","0","x","F","F","1","1","2","2","3","3",")",";">>,
        <<" "," ","s","t","a","t","i","c"," ","c","o","n","s","t"," ","b"," ","="," ","C","o","l","o","r","(","0","x","F","F","4","4","5","5","6","6",")",";">>,
        <<" "," ","s","t","a","t","i","c"," ","c","o","n","s","t"," ","c"," ","="," ","C","o","l","o","r","(","0","x","F","F","7","7","8","8","9","9",")",";">>,
        <<" "," ","f","i","n","a","l"," ","m","o","d","e"," ","="," ","T","h","e","m","e","M","o","d","e",".","d","a","r","k",";">>,
        <<" "," ","g","e","t"," ","t"," ","=",">"," ","T","h","e","m","e",".","o","f","(","c","o","n","t","e","x","t",")",";">>,
        <<" "," ","e","l","e","v","a","t","i","o","n",":"," ","4",",">>,
        <<"}">> >>)]

PremiumTypographyCache ==
    [name |-> <<"p","r","e","m","i","u","m","_","t","y","p","o","g","r","a","p","h","y","_","c","a","c","h","e",".","d","a","r","t">>, readable |-> TRUE,
     content |-> JoinLines(<<
        <<"c","l","a","s","s"," ","P","r","e","m","i","u","m","T","y","p","o","g","r","a","p","h","y","C","a","c","h","e"," ","e","x","t","e","n","d","s"," ","S","t","a","t","e","f","u","l","W","i","d","g","e","t"," ","{">>,
        <<" "," ","f","i","n","a","l"," ","n","o","d","e"," ","="," ","F","o","c","u","s","N","o","d","e","(",")",";">>,
        <<" "," ","v","o","i","d"," ","i","n","i","t","S","t","a","t","e","(",")"," ","{"," ","}">>,
        <<" "," ","v","o","i","d"," ","d","i","s","p","o","s","e","(",")"," ","{"," ","}">>,
        <<" "," ","W","i","d","g","e","t"," ","b","u","i","l","d","(","B","u","i","l","d","C","o","n","t","e","x","t"," ","c","o","n","t","e","x","t",")"," ","{">>,
        <<" "," "," "," ","f","i","n","a","l"," ","s","i","z","e"," ","="," ","M","e","d","i","a","Q","u","e","r","y",".","o","f","(","c","o","n","t","e","x","t",")",".","s","i","z","e",";">>,
        <<" "," "," "," ","r","e","t","u","r","n"," ","S","e","m","a","n","t","i","c","s","(","c","h","i","l","d",":"," ","M","e","r","g","e","S","e","m","a","n","t","i","c","s","(","c","h","i","l","d",":"," ","F","u","t","u","r","e","B","u","i","l","d","e","r","(",")",")",")",";">>,
        <<" "," ","}">>,
        <<" "," ","f","i","n","a","l"," ","c"," ","="," ","A","n","i","m","a","t","i","o","n","C","o","n","t","r","o","l","l","e","r","(",")",";">>,
        <<"}">> >>)]

PremiumPerformanceAuth ==
    [name |-> <<"p","r","e","m","i","u","m","_","p","e","r","f","o","r","m","a","n","c","e","_","a","u","t","h",".","d","a","r","t">>, readable |-> TRUE,
     content |-> JoinLines(<<
        <<"c","l","a","s","s"," ","F","l","o","w"," ","{">>,
        <<" "," ","g","o","(",")"," ","{">>,
        <<" "," "," "," ","t","r","y"," ","{"," ","N","a","v","i","g","a","t","o","r",".","p","u","s","h","(","P","a","g","e","R","o","u","t","e","B","u","i","l","d","e","r","(",")",")",";"," ","}"," ","c","a","t","c","h"," ","(","e",")"," ","{"," ","s","h","o","w","D","i","a","l","o","g","(",")",";"," ","}">>,
        <<" "," ","}">>,
        <<" "," ","W","i","d","g","e","t"," ","o","n","b","o","a","r","d"," ","="," ","G","e","s","t","u","r","e","D","e","t","e","c","t","o","r","(","o","n","T","a","p",":"," ","r","u","n",","," ","c","h","i","l","d",":"," ","H","e","r","o","(","t","a","g",":"," ","A","n","i","m","a","t","i","o","n","(",")",")",")",";">>,
        <<" "," ","W","i","d","g","e","t"," ","b","o","d","y"," ","="," ","S","a","f","e","A","r","e","a","(","c","h","i","l","d",":"," ","E","x","p","a","n","d","e","d","(","c","h","i","l","d",":"," ","L","a","y","o","u","t","B","u","i","l","d","e","r","(",")",")",")",";">>,
        <<" "," ","v","a","r"," ","o"," ","="," ","O","r","i","e","n","t","a","t","i","o","n",".","p","o","r","t","r","a","i","t",";">>,
        <<" "," ","v","a","r"," ","p"," ","="," ","C","i","r","c","u","l","a","r","P","r","o","g","r","e","s","s","I","n","d","i","c","a","t","o","r","(",")">>,
        <<"}">> >>)]

MainDart ==
    [name |-> <<"m","a","i","n",".","d","a","r","t">>, readable |-> TRUE,
     content |-> JoinLines(<<
        <<"i","m","p","o","r","t"," ","'","p","a","c","k","a","g","e",":","f","l","u","t","t","e","r","/","m","a","t","e","r","i","a","l",".","d","a","r","t","'">>,
        <<"/","/"," ","e","n","t","r","y"," ","p","o","i","n","t">>,
        <<"c","l","a","s","s"," ","M","y","A","p","p"," ","e","x","t","e","n","d","s"," ","S","t","a","t","e","l","e","s","s","W","i","d","g","e","t"," ","{">>,
        <<" "," ","x"," ","="," ","c","o","m","p","u","t","e","(",")">>,
        <<"}">> >>)]

AppThemeUnreadable ==
    [name |-> <<"a","p","p","_","t","h","e","m","e",".","d","a","r","t">>, readable |-> FALSE, content |-> << >>]

\* a file no validator can read, whose name every other filename rule matches
PremiumNamedUnreadable ==
    [name |-> <<"p","r","e","m","i","u","m","_","c","o","l","o","r","_","t","y","p","o","g","r","a","p","h","y","_","c","a","c","h","e","_","p","e","r","f","o","r","m","a","n","c","e","_","a","u","t","h",".","d","a","r","t">>,
     readable |-> FALSE, content |-> << >>]

\* the files a project tree is drawn from
FileCatalog ==
    <<PremiumThemeColors, PremiumTypographyCache, PremiumPerformanceAuth,
      MainDart, AppThemeUnreadable, PremiumNamedUnreadable>>

File(i) == FileCatalog[i]

\* the states of <root>/pubspec.yaml: absent, unreadable, with and without fonts
PubspecCatalog ==
    << [exists |-> FALSE, readable |-> FALSE, content |-> << >>],
       [exists |-> TRUE, readable |-> FALSE, content |-> << >>],
       [exists |-> TRUE, readable |-> TRUE,
        content |-> JoinLines(<< <<"n","a","m","e",":"," ","a","p","p">>, <<"f","l","u","t","t","e","r",":">>, <<" "," ","f","o","n","t","s",":">>,
                                 <<" "," "," "," ","-"," ","f","a","m","i","l","y",":"," ","I","n","t","e","r">> >>)],
       [exists |-> TRUE, readable |-> TRUE,
        content |-> JoinLines(<< <<"n","a","m","e",":"," ","a","p","p">>, <<"f","l","u","t","t","e","r",":">>,
                                 <<" "," ","u","s","e","s","-","m","a","t","e","r","i","a","l","-","d","e","s","i","g","n",":"," ","t","r","u","e">> >>)] >>

\* every enumeration order of every set of at most MaxFiles catalogue files
Trees ==
    UNION { {s \in [1..n -> 1..Len(FileCatalog)] :
                \A a, b \in 1..n : a # b => s[a] # s[b]} : n \in 0..MaxFiles }

\* variant: only the files that can be read are listed
RglobReadable(t, pattern) ==
    SelectSeq(t, LAMBDA i : GlobMatch(pattern, File(i).name) /\ File(i).readable)

\* list(self.project_root.rglob(pattern)): the files whose name matches, in tree order
Rglob(t, pattern) == SelectSeq(t, LAMBDA i : GlobMatch(pattern, File(i).name))

----------------------------------------------------------------------------
(* IndustrialUXValidator                                                   *)

\* an empty dict / an empty list
EmptyDict == [k \in {} |-> FALSE]

\* sum(checks.values()) of a dict of booleans
SumValues(checks) == Cardinality({k \in DOMAIN checks : checks[k]})

\* points per satisfied rule, by category
MaterialWeight == 4
AccessibilityWeight == 3
PerformanceWeight == 3
AnimationWeight == 2
ThemingWeight == 3
ResponsiveWeight == 2
UserFlowWeight == 3

\* __init__: the fields of a new instance
NewUxValidator == [ux_score |-> 0, max_score |-> 100, validations |-> << >>]

\* the results dict validate_complete_ux starts from
NewUxResults ==
    [ux_score |-> 0, validations |-> << >>,
     material_design |-> EmptyDict, accessibility |-> EmptyDict,
     performance |-> EmptyDict, animations |-> EmptyDict, theming |-> EmptyDict,
     responsive_design |-> EmptyDict, user_flows |-> EmptyDict,
     summary |-> EmptyDict]

\* the categories in the order validate_complete_ux evaluates them
Categories ==
    <<"material_design", "accessibility", "performance", "animations",
      "theming", "responsive_design", "user_flows">>

(* ---- material design ---- *)

\* variant: only the first file enumerated is examined
ElevationLoopFirstOnly(files, elevation_found) ==
    IF files = << >> THEN elevation_found
    ELSE LET f == File(Head(files)) IN
         IF ~f.readable THEN elevation_found
         ELSE In(<<"e","l","e","v","a","t","i","o","n",":">>, f.content) \/ In(<<"b","o","x","S","h","a","d","o","w">>, f.content)

\* the elevation scan: stops at the first file that matches; a file that
\* cannot be read is skipped
RECURSIVE ElevationLoop(_, _)
ElevationLoop(files, elevation_found) ==
    IF files = << >> THEN elevation_found
    ELSE LET f == File(Head(files)) IN
         IF ~f.readable THEN ElevationLoop(Tail(files), elevation_found)
         ELSE IF In(<<"e","l","e","v","a","t","i","o","n",":">>, f.content) \/ In(<<"b","o","x","S","h","a","d","o","w">>, f.content)
              THEN TRUE
              ELSE ElevationLoop(Tail(files), elevation_found)

PremiumComponentsNeeded == 3

\* variant: two premium components are enough
ComponentUsageOffByOne(component_files) ==
    Len(component_files) + 1 >= PremiumComponentsNeeded

\* len(component_files) >= 3
ComponentUsage(component_files) == Len(component_files) >= PremiumComponentsNeeded

MaterialChecks(t) ==
    [theme_implementation |-> Rglob(t, <<"*","t","h","e","m","e","*",".","d","a","r","t">>) # << >>,
     component_usage |-> ComponentUsage(Rglob(t, <<"p","r","e","m","i","u","m","_","*",".","d","a","r","t">>)),
     color_system |-> Rglob(t, <<"*","c","o","l","o","r","*",".","d","a","r","t">>) # << >>,
     typography |-> Rglob(t, <<"*","t","y","p","o","g","r","a","p","h","y","*",".","d","a","r","t">>) # << >>,
     elevation_shadows |-> ElevationLoop(Rglob(t, <<"*",".","d","a","r","t">>), FALSE)]

\* variant: the rules that failed are the ones counted
MaterialScoreOfFailed(checks) ==
    (Cardinality(DOMAIN checks) - SumValues(checks)) * MaterialWeight

MaterialScore(checks) == SumValues(checks) * MaterialWeight

(* ---- accessibility ---- *)

AccessibilityFile(checks, content) ==
    [checks EXCEPT
       !.semantic_labels =
           @ \/ In(<<"s","e","m","a","n","t","i","c","s","L","a","b","e","l">>, content) \/ In(<<"S","e","m","a","n","t","i","c","s","(">>, content),
       !.focus_management =
           @ \/ In(<<"F","o","c","u","s","N","o","d","e">>, content) \/ In(<<"f","o","c","u","s",":">>, content),
       !.text_scaling =
           @ \/ In(<<"t","e","x","t","S","c","a","l","e","F","a","c","t","o","r">>, content) \/ In(<<"M","e","d","i","a","Q","u","e","r","y">>, content),
       !.screen_reader_support =
           @ \/ In(<<"E","x","c","l","u","d","e","S","e","m","a","n","t","i","c","s">>, content) \/ In(<<"M","e","r","g","e","S","e","m","a","n","t","i","c","s">>, content)]

RECURSIVE AccessibilityLoop(_, _)
AccessibilityLoop(files, checks) ==
    IF files = << >> THEN checks
    ELSE LET f == File(Head(files)) IN
         IF ~f.readable THEN AccessibilityLoop(Tail(files), checks)
         ELSE AccessibilityLoop(Tail(files), AccessibilityFile(checks, f.content))

\* the colour-contrast scan over the theme files: stops at the first match
RECURSIVE ContrastLoop(_, _)
ContrastLoop(files, checks) ==
    IF files = << >> THEN checks
    ELSE LET f == File(Head(files)) IN
         IF ~f.readable THEN ContrastLoop(Tail(files), checks)
         ELSE IF In(<<"T","h","e","m","e","D","a","t","a",".","d","a","r","k">>, f.content)
                 \/ In(<<"b","r","i","g","h","t","n","e","s","s",":"," ","B","r","i","g","h","t","n","e","s","s",".","d","a","r","k">>, f.content)
              THEN [checks EXCEPT !.color_contrast = TRUE]
              ELSE ContrastLoop(Tail(files), checks)

AccessibilityChecks(t) ==
    ContrastLoop(Rglob(t, <<"*","t","h","e","m","e","*",".","d","a","r","t">>),
        AccessibilityLoop(Rglob(t, <<"*",".","d","a","r","t">>),
            [semantic_labels |-> FALSE, focus_management |-> FALSE,
             color_contrast |-> FALSE, text_scaling |-> FALSE,
             screen_reader_support |-> FALSE]))

\* variant: the multiplier of the material design category is applied
AccessibilityScoreCopied(checks) == SumValues(checks) * MaterialWeight

AccessibilityScore(checks) == SumValues(checks) * AccessibilityWeight

(* ---- performance ---- *)

PerformanceFile(checks, content) ==
    [checks EXCEPT
       !.lazy_loading =
           @ \/ In(<<"F","u","t","u","r","e","B","u","i","l","d","e","r">>, content) \/ In(<<"S","t","r","e","a","m","B","u","i","l","d","e","r">>, content),
       !.memory_optimization =
           @ \/ (In(<<"d","i","s","p","o","s","e","(",")">>, content) /\ In(<<"i","n","i","t","S","t","a","t","e","(",")">>, content)),
       !.smooth_animations =
           @ \/ In(<<"A","n","i","m","a","t","i","o","n","C","o","n","t","r","o","l","l","e","r">>, content) \/ In(<<"T","w","e","e","n">>, content)]

RECURSIVE PerformanceLoop(_, _)
PerformanceLoop(files, checks) ==
    IF files = << >> THEN checks
    ELSE LET f == File(Head(files)) IN
         IF ~f.readable THEN PerformanceLoop(Tail(files), checks)
         ELSE PerformanceLoop(Tail(files), PerformanceFile(checks, f.content))

PerformanceChecks(t) ==
    PerformanceLoop(Rglob(t, <<"*",".","d","a","r","t">>),
        [image_caching |-> Rglob(t, <<"*","c","a","c","h","e","*",".","d","a","r","t">>) # << >>,
         lazy_loading |-> FALSE,
         performance_monitoring |-> Rglob(t, <<"*","p","e","r","f","o","r","m","a","n","c","e","*",".","d","a","r","t">>) # << >>,
         memory_optimization |-> FALSE,
         smooth_animations |-> FALSE])

\* variant: the multiplier of the animations category is applied
PerformanceScoreCopied(checks) == SumValues(checks) * AnimationWeight

PerformanceScore(checks) == SumValues(checks) * PerformanceWeight

(* ---- animations ---- *)

AnimationFile(checks, content) ==
    [checks EXCEPT
       !.micro_interactions =
           @ \/ (In(<<"o","n","T","a","p">>, content)
                 /\ (In(<<"A","n","i","m","a","t","i","o","n">>, content) \/ In(<<"s","c","a","l","e">>, content))),
       !.page_transitions =
           @ \/ In(<<"P","a","g","e","R","o","u","t","e","B","u","i","l","d","e","r">>, content) \/ In(<<"S","l","i","d","e","T","r","a","n","s","i","t","i","o","n">>, content),
       !.loading_animations =
           @ \/ In(<<"C","i","r","c","u","l","a","r","P","r","o","g","r","e","s","s","I","n","d","i","c","a","t","o","r">>, content)
             \/ In(<<"L","i","n","e","a","r","P","r","o","g","r","e","s","s","I","n","d","i","c","a","t","o","r">>, content),
       !.gesture_animations =
           @ \/ (In(<<"G","e","s","t","u","r","e","D","e","t","e","c","t","o","r">>, content) /\ In(<<"A","n","i","m","a","t","i","o","n">>, content)),
       !.hero_animations =
           @ \/ In(<<"H","e","r","o","(">>, content)]

RECURSIVE AnimationLoop(_, _)
AnimationLoop(files, checks) ==
    IF files = << >> THEN checks
    ELSE LET f == File(Head(files)) IN
         IF ~f.readable THEN AnimationLoop(Tail(files), checks)
         ELSE AnimationLoop(Tail(files), AnimationFile(checks, f.content))

AnimationChecks(t) ==
    AnimationLoop(Rglob(t, <<"*",".","d","a","r","t">>),
        [micro_interactions |-> FALSE, page_transitions |-> FALSE,
         loading_animations |-> FALSE, gesture_animations |-> FALSE,
         hero_animations |-> FALSE])

AnimationScore(checks) == SumValues(checks) * AnimationWeight

(* ---- theming ---- *)

\* r'Color\(0x[0-9A-Fa-f]{8}\)' matches at position k
ColorLiteralAt(text, k) ==
    /\ k + 16 <= Len(text)
    /\ \A j \in 1..8 : text[k + j - 1] = (<<"C","o","l","o","r","(","0","x">>)[j]
    /\ \A j \in 8..15 : IsHex(text[k + j])
    /\ text[k + 16] = ")"

\* len(re.findall(r'Color\(0x[0-9A-Fa-f]{8}\)', content)): the matches are
\* counted left to right, each search resuming after the previous match
RECURSIVE CountColorLiterals(_, _)
CountColorLiterals(text, k) ==
    IF \E j \in k..Len(text) : ColorLiteralAt(text, j)
    THEN LET m == CHOOSE j \in k..Len(text) :
                     /\ ColorLiteralAt(text, j)
                     /\ \A i \in k..(j - 1) : ~ColorLiteralAt(text, i)
         IN  1 + CountColorLiterals(text, m + 17)
    ELSE 0

BrandColorsNeeded == 3

ThemingFile(checks, content) ==
    [checks EXCEPT
       !.dark_light_theme =
           @ \/ In(<<"T","h","e","m","e","D","a","t","a",".","d","a","r","k">>, content) \/ In(<<"b","r","i","g","h","t","n","e","s","s",":">>, content),
       !.consistent_colors =
           @ \/ In(<<"T","h","e","m","e",".","o","f","(","c","o","n","t","e","x","t",")">>, content),
       !.theme_switching =
           @ \/ In(<<"T","h","e","m","e","M","o","d","e">>, content) \/ In(<<"t","h","e","m","e",":">>, content),
       !.brand_consistency =
           @ \/ (In(<<"C","o","l","o","r","(","0","x">>, content)
                 /\ CountColorLiterals(content, 1) >= BrandColorsNeeded)]

RECURSIVE ThemingLoop(_, _)
ThemingLoop(files, checks) ==
    IF files = << >> THEN checks
    ELSE LET f == File(Head(files)) IN
         IF ~f.readable THEN ThemingLoop(Tail(files), checks)
         ELSE ThemingLoop(Tail(files), ThemingFile(checks, f.content))

\* pubspec.yaml declares fonts: the file exists, can be read and holds 'fonts:'
CustomFonts(p) ==
    IF PubspecCatalog[p].exists
    THEN IF PubspecCatalog[p].readable THEN In(<<"f","o","n","t","s",":">>, PubspecCatalog[p].content)
         ELSE FALSE
    ELSE FALSE

ThemingChecks(t, p) ==
    ThemingLoop(Rglob(t, <<"*",".","d","a","r","t">>),
        [dark_light_theme |-> FALSE, consistent_colors |-> FALSE,
         custom_fonts |-> CustomFonts(p), theme_switching |-> FALSE,
         brand_consistency |-> FALSE])

ThemingScore(checks) == SumValues(checks) * ThemingWeight

(* ---- responsive design ---- *)

ResponsiveFile(checks, content) ==
    [checks EXCEPT
       !.screen_size_adaptation =
           @ \/ In(<<"M","e","d","i","a","Q","u","e","r","y",".","o","f","(","c","o","n","t","e","x","t",")",".","s","i","z","e">>, content),
       !.orientation_handling =
           @ \/ In(<<"O","r","i","e","n","t","a","t","i","o","n",".">>, content) \/ In(<<"o","r","i","e","n","t","a","t","i","o","n",":">>, content),
       !.safe_area_usage =
           @ \/ In(<<"S","a","f","e","A","r","e","a","(">>, content),
       !.flexible_layouts =
           @ \/ In(<<"F","l","e","x","i","b","l","e","(">>, content) \/ In(<<"E","x","p","a","n","d","e","d","(">>, content)
             \/ In(<<"W","r","a","p","(">>, content),
       !.breakpoint_handling =
           @ \/ In(<<"L","a","y","o","u","t","B","u","i","l","d","e","r">>, content) \/ In(<<"c","o","n","s","t","r","a","i","n","t","s">>, content)]

RECURSIVE ResponsiveLoop(_, _)
ResponsiveLoop(files, checks) ==
    IF files = << >> THEN checks
    ELSE LET f == File(Head(files)) IN
         IF ~f.readable THEN ResponsiveLoop(Tail(files), checks)
         ELSE ResponsiveLoop(Tail(files), ResponsiveFile(checks, f.content))

ResponsiveChecks(t) ==
    ResponsiveLoop(Rglob(t, <<"*",".","d","a","r","t">>),
        [screen_size_adaptation |-> FALSE, orientation_handling |-> FALSE,
         safe_area_usage |-> FALSE, flexible_layouts |-> FALSE,
         breakpoint_handling |-> FALSE])

ResponsiveScore(checks) == SumValues(checks) * ResponsiveWeight

(* ---- user flows ---- *)

UserFlowFile(checks, content) ==
    [checks EXCEPT
       !.onboarding_flow =
           @ \/ In(<<"o","n","b","o","a","r","d">>, Lower(content)) \/ In(<<"i","n","t","r","o">>, Lower(content)),
       !.error_handling_flow =
           @ \/ (In(<<"t","r","y"," ","{">>, content) /\ In(<<"c","a","t","c","h">>, content)),
       !.navigation_flow =
           @ \/ In(<<"N","a","v","i","g","a","t","o","r",".">>, content) \/ In(<<"G","o","R","o","u","t","e","r">>, content),
       !.feedback_flow =
           @ \/ In(<<"S","n","a","c","k","B","a","r">>, content) \/ In(<<"s","h","o","w","D","i","a","l","o","g">>, content)
             \/ In(<<"S","c","a","f","f","o","l","d","M","e","s","s","e","n","g","e","r">>, content)]

RECURSIVE UserFlowLoop(_, _)
UserFlowLoop(files, checks) ==
    IF files = << >> THEN checks
    ELSE LET f == File(Head(files)) IN
         IF ~f.readable THEN UserFlowLoop(Tail(files), checks)
         ELSE UserFlowLoop(Tail(files), UserFlowFile(checks, f.content))

UserFlowChecks(t) ==
    UserFlowLoop(Rglob(t, <<"*",".","d","a","r","t">>),
        [onboarding_flow |-> FALSE,
         authentication_flow |-> Rglob(t, <<"*","a","u","t","h","*",".","d","a","r","t">>) # << >>,
         error_handling_flow |-> FALSE, navigation_flow |-> FALSE,
         feedback_flow |-> FALSE])

\* variant: the multiplier of the responsive design category is applied
UserFlowScoreCopied(checks) == SumValues(checks) * ResponsiveWeight

UserFlowScore(checks) == SumValues(checks) * UserFlowWeight

(* ---- final score, grade, recommendations ---- *)

Min(a, b) == IF a <= b THEN a ELSE b

\* (final_score / self.max_score) * 100.  The source computes it in binary
\* floating point; for max_score = 100 and the integers 0..100 the float is
\* within 1e-13 of the integer and lies on the same side of 60, 70, 80 and 90,
\* so the percentage is kept as the exact integer.
Percentage(final_score, max_score) == (final_score * 100) \div max_score

\* variant: the top threshold is exclusive
GradeOfStrict(percentage) ==
    IF percentage > 90 THEN <<"A+ (Industrial Grade)", "EXCELLENT">>
    ELSE IF percentage >= 80 THEN <<"A (Professional Grade)", "VERY GOOD">>
    ELSE IF percentage >= 70 THEN <<"B+ (Good Standard)", "GOOD">>
    ELSE IF percentage >= 60 THEN <<"B (Acceptable)", "NEEDS IMPROVEMENT">>
    ELSE <<"C (Below Standard)", "REQUIRES MAJOR WORK">>

\* the if/elif chain: <<grade, status>> (the status without its emoji)
GradeOf(percentage) ==
    IF percentage >= 90 THEN <<"A+ (Industrial Grade)", "EXCELLENT">>
    ELSE IF percentage >= 80 THEN <<"A (Professional Grade)", "VERY GOOD">>
    ELSE IF percentage >= 70 THEN <<"B+ (Good Standard)", "GOOD">>
    ELSE IF percentage >= 60 THEN <<"B (Acceptable)", "NEEDS IMPROVEMENT">>
    ELSE <<"C (Below Standard)", "REQUIRES MAJOR WORK">>

MaxRecommendations == 5

\* variant: the list is returned whole
GenerateRecommendationsUncapped(r) ==
    LET md == r.material_design
        acc == r.accessibility
        perf == r.performance
    IN  (IF ~md.theme_implementation
         THEN <<"Implement comprehensive Material Design 3 theme">> ELSE << >>)
        \o (IF ~md.component_usage
            THEN <<"Create more premium UI components">> ELSE << >>)
        \o (IF ~acc.semantic_labels
            THEN <<"Add semantic labels for screen readers">> ELSE << >>)
        \o (IF ~acc.focus_management
            THEN <<"Implement proper focus management">> ELSE << >>)
        \o (IF ~perf.image_caching
            THEN <<"Implement advanced image caching system">> ELSE << >>)
        \o (IF ~perf.lazy_loading
            THEN <<"Add lazy loading for better performance">> ELSE << >>)

GenerateRecommendations(r) ==
    LET md == r.material_design
        acc == r.accessibility
        perf == r.performance
        recommendations ==
            (IF ~md.theme_implementation
             THEN <<"Implement comprehensive Material Design 3 theme">> ELSE << >>)
            \o (IF ~md.component_usage
                THEN <<"Create more premium UI components">> ELSE << >>)
            \o (IF ~acc.semantic_labels
                THEN <<"Add semantic labels for screen readers">> ELSE << >>)
            \o (IF ~acc.focus_management
                THEN <<"Implement proper focus management">> ELSE << >>)
            \o (IF ~perf.image_caching
                THEN <<"Implement advanced image caching system">> ELSE << >>)
            \o (IF ~perf.lazy_loading
                THEN <<"Add lazy loading for better performance">> ELSE << >>)
    IN  Take(recommendations, MaxRecommendations)

FinalScore(r, max_score) == Min(r.ux_score, max_score)

UxSummary(r, max_score) ==
    LET final_score == FinalScore(r, max_score)
        percentage == Percentage(final_score, max_score)
    IN  [final_score |-> final_score,
         max_score |-> max_score,
         percentage |-> percentage,
         grade |-> GradeOf(percentage)[1],
         status |-> GradeOf(percentage)[2],
         recommendations |-> GenerateRecommendations(r)]

----------------------------------------------------------------------------
(* DartValidator                                                           *)

\* __init__: the fields of a new instance
NewDartValidator == [errors |-> << >>, warnings |-> << >>, files_checked |-> 0]

\* the results dict validate_project starts from
NewLintResults ==
    [files_checked |-> 0, syntax_errors |-> << >>, import_errors |-> << >>,
     structure_issues |-> << >>, warnings |-> << >>, summary |-> EmptyDict]

Abs(n) == IF n < 0 THEN -n ELSE n

\* line[:50]
ExcerptLen == 50

\* re.search(r'\w+\s*=\s*[^;{]+$', line): some '=' is preceded by a word
\* character and then only whitespace, and is followed up to the end of the
\* line by at least one character, none of them ';' or '{'
ReAssignment(line) ==
    \E e \in 1..Len(line) :
        /\ line[e] = "="
        /\ \E w \in 1..(e - 1) :
              /\ IsWord(line[w])
              /\ \A k \in (w + 1)..(e - 1) : IsSpace(line[k])
        /\ e < Len(line)
        /\ \A k \in (e + 1)..Len(line) : line[k] \notin {";", "{"}

ControlKeywords == { <<"i","f">>, <<"f","o","r">>, <<"w","h","i","l","e">>, <<"s","w","i","t","c","h">>, <<"t","r","y">>, <<"=",">">> }

\* any(x in line for x in ['if', 'for', 'while', 'switch', 'try', '=>'])
HasControlKeyword(line) == \E x \in ControlKeywords : In(x, line)

BraceIssue(path, i, line) ==
    [file |-> path, line |-> i,
     error |-> <<"P","o","t","e","n","t","i","a","l"," ","b","r","a","c","e"," ","m","i","s","m","a","t","c","h",":"," ">> \o Take(line, ExcerptLen) \o <<".",".",".">>]

SemicolonIssue(path, i, line) ==
    [file |-> path, line |-> i,
     error |-> <<"M","i","s","s","i","n","g"," ","s","e","m","i","c","o","l","o","n",":"," ">> \o Take(line, ExcerptLen) \o <<".",".",".">>]

\* variant: any difference between the two counts is reported
BraceCheckAnyMismatch(path, i, line, errors) ==
    IF CountChar(line, "{") # CountChar(line, "}")
    THEN Append(errors, BraceIssue(path, i, line))
    ELSE errors

\* the brace check of one stripped line
BraceCheck(path, i, line, errors) ==
    IF CountChar(line, "{") # CountChar(line, "}")
    THEN LET open_braces == CountChar(line, "{") - CountChar(line, "}") IN
         IF Abs(open_braces) > 1 THEN Append(errors, BraceIssue(path, i, line))
         ELSE errors
    ELSE errors

\* the semicolon check of one stripped line
SemicolonCheck(path, i, line, errors) ==
    IF (EndsWith(line, <<"}">>) \/ EndsWith(line, <<";">>)) /\ In(<<"=">>, line)
       /\ ~StartsWith(line, <<"/","/">>)
    THEN errors
    ELSE IF ReAssignment(line) /\ ~EndsWith(line, <<",">>) /\ ~HasControlKeyword(line)
         THEN Append(errors, SemicolonIssue(path, i, line))
         ELSE errors

\* the body of the loop of _check_syntax for line number i
SyntaxLine(path, i, raw, errors) ==
    LET line == Strip(raw) IN
    IF line = << >> \/ StartsWith(line, <<"/","/">>) THEN errors
    ELSE SemicolonCheck(path, i, line, BraceCheck(path, i, line, errors))

RECURSIVE SyntaxLoop(_, _, _, _)
SyntaxLoop(path, lines, i, errors) ==
    IF i > Len(lines) THEN errors
    ELSE SyntaxLoop(path, lines, i + 1, SyntaxLine(path, i, lines[i], errors))

\* variant: the lines are numbered from 0 (enumerate(lines) without its start)
CheckSyntaxFromZero(path, text, r) ==
    LET found == SyntaxLoop(path, SplitLines(text), 1, r.syntax_errors) IN
    [r EXCEPT !.syntax_errors =
        [k \in 1..Len(found) |->
            IF k <= Len(r.syntax_errors) THEN found[k]
            ELSE [found[k] EXCEPT !.line = @ - 1]]]

\* _check_syntax: lines are numbered from 1
CheckSyntax(path, text, r) ==
    [r EXCEPT !.syntax_errors = SyntaxLoop(path, SplitLines(text), 1, @)]

Quotes == {"'", "\""}
ImportPathChars == WordChars \cup {"/", ":", "."}

\* variant: the whole line has to match (re.fullmatch)
ReImportWhole(line) ==
    /\ StartsWith(line, <<"i","m","p","o","r","t">>)
    /\ LET q == SkipWhile(line, 7, Whitespace)
           p == SkipWhile(line, q + 1, ImportPathChars)
       IN  /\ q > 7
           /\ q <= Len(line) /\ line[q] \in Quotes
           /\ p > q + 1
           /\ p <= Len(line) /\ line[p] \in Quotes
           /\ \/ p = Len(line)
              \/ p + 1 = Len(line) /\ line[p + 1] = ";"

\* re.match(r"import\s+['\"][\w/:.]+['\"];?", line): a prefix of the line
ReImport(line) ==
    /\ StartsWith(line, <<"i","m","p","o","r","t">>)
    /\ LET q == SkipWhile(line, 7, Whitespace)
           p == SkipWhile(line, q + 1, ImportPathChars)
       IN  /\ q > 7
           /\ q <= Len(line) /\ line[q] \in Quotes
           /\ p > q + 1
           /\ p <= Len(line) /\ line[p] \in Quotes

ImportLine(path, i, raw, errors) ==
    LET line == Strip(raw) IN
    IF StartsWith(line, <<"i","m","p","o","r","t"," ">>)
    THEN LET e1 == IF ~ReImport(line)
                   THEN Append(errors, [file |-> path, line |-> i,
                            error |-> <<"I","n","v","a","l","i","d"," ","i","m","p","o","r","t"," ","f","o","r","m","a","t",":"," ">> \o line])
                   ELSE errors
         IN  IF ~EndsWith(line, <<";">>)
             THEN Append(e1, [file |-> path, line |-> i,
                      error |-> <<"M","i","s","s","i","n","g"," ","s","e","m","i","c","o","l","o","n"," ","i","n"," ","i","m","p","o","r","t",":"," ">> \o line])
             ELSE e1
    ELSE errors

RECURSIVE ImportLoop(_, _, _, _)
ImportLoop(path, lines, i, errors) ==
    IF i > Len(lines) THEN errors
    ELSE ImportLoop(path, lines, i + 1, ImportLine(path, i, lines[i], errors))

\* _check_imports
CheckImports(path, text, r) ==
    [r EXCEPT !.import_errors = ImportLoop(path, SplitLines(text), 1, @)]

\* r'class\s+(\w+)' matches at position k
ClassAt(text, k) ==
    /\ k + 6 <= Len(text)
    /\ \A j \in 1..5 : text[k + j - 1] = (<<"c","l","a","s","s">>)[j]
    /\ IsSpace(text[k + 5])
    /\ LET q == SkipWhile(text, k + 5, Whitespace)
       IN  q <= Len(text) /\ IsWord(text[q])

\* re.findall(r'class\s+(\w+)', content): the names, left to right, each
\* search resuming where the previous match ended
RECURSIVE ClassMatches(_, _)
ClassMatches(text, k) ==
    IF \E j \in k..Len(text) : ClassAt(text, j)
    THEN LET m == CHOOSE j \in k..Len(text) :
                     /\ ClassAt(text, j)
                     /\ \A i \in k..(j - 1) : ~ClassAt(text, i)
             q == SkipWhile(text, m + 5, Whitespace)
             p == SkipWhile(text, q, WordChars)
         IN  <<SubSeq(text, q, p - 1)>> \o ClassMatches(text, p)
    ELSE << >>

\* '(.)([A-Z][a-z]+)' matches at position k ('.' matches all but a newline)
HumpAt(name, k) ==
    /\ k + 2 <= Len(name)
    /\ name[k] # "\n"
    /\ IsUpper(name[k + 1])
    /\ IsLower(name[k + 2])

\* re.sub('(.)([A-Z][a-z]+)', r'\1_\2', name): left to right, each search
\* resuming where the previous match ended
RECURSIVE SubUnderscore(_, _)
SubUnderscore(name, k) ==
    IF \E j \in k..Len(name) : HumpAt(name, j)
    THEN LET m == CHOOSE j \in k..Len(name) :
                     /\ HumpAt(name, j)
                     /\ \A i \in k..(j - 1) : ~HumpAt(name, i)
             p == SkipWhile(name, m + 2, LowerChars)
         IN  SubSeq(name, k, m) \o <<"_">> \o SubSeq(name, m + 1, p - 1)
             \o SubUnderscore(name, p)
    ELSE SubSeq(name, k, Len(name))

\* _camel_to_snake
CamelToSnake(name) == Lower(SubUnderscore(name, 1))

\* Path.stem: the name without its last suffix
Stem(name) ==
    LET dots == {k \in 2..Len(name) : name[k] = "."} IN
    IF dots = {} \/ name[Len(name)] = "." THEN name
    ELSE Take(name, (CHOOSE a \in dots : \A b \in dots : b <= a) - 1)

NamingWarning(path, file_name, class_name, expected_filename) ==
    [file |-> path,
     warning |-> <<"F","i","l","e"," ","n","a","m","e"," ","'">> \o file_name \o <<"'"," ","d","o","e","s","n","'","t"," ","m","a","t","c","h"," ","c","l","a","s","s"," ","'">>
                 \o class_name \o <<"'"," ","(","e","x","p","e","c","t","e","d",":"," ">> \o expected_filename \o <<")">>]

\* variant: the naming entry is appended to structure_issues
CheckStructureNamingAsIssue(path, text, r) ==
    LET class_matches == ClassMatches(text, 1)
        file_name == Stem(path)
        r1 == IF class_matches # << >> /\ Len(class_matches) = 1
              THEN LET class_name == class_matches[1]
                       expected_filename == CamelToSnake(class_name)
                   IN  IF file_name # expected_filename
                          /\ ~EndsWith(file_name, <<"_","t","e","s","t">>)
                       THEN [r EXCEPT !.structure_issues = Append(@,
                                NamingWarning(path, file_name, class_name,
                                              expected_filename))]
                       ELSE r
              ELSE r
    IN  IF In(<<"e","x","t","e","n","d","s"," ","S","t","a","t","e","l","e","s","s","W","i","d","g","e","t">>, text) \/ In(<<"e","x","t","e","n","d","s"," ","S","t","a","t","e","f","u","l","W","i","d","g","e","t">>, text)
        THEN IF ~In(<<"W","i","d","g","e","t"," ","b","u","i","l","d","(","B","u","i","l","d","C","o","n","t","e","x","t"," ","c","o","n","t","e","x","t",")">>, text)
             THEN [r1 EXCEPT !.structure_issues = Append(@,
                      [file |-> path, error |-> <<"W","i","d","g","e","t"," ","m","i","s","s","i","n","g"," ","b","u","i","l","d"," ","m","e","t","h","o","d">>])]
             ELSE r1
        ELSE r1

\* variant: only 'extends StatelessWidget' marks a widget
CheckStructureStatelessOnly(path, text, r) ==
    LET class_matches == ClassMatches(text, 1)
        file_name == Stem(path)
        r1 == IF class_matches # << >> /\ Len(class_matches) = 1
              THEN LET class_name == class_matches[1]
                       expected_filename == CamelToSnake(class_name)
                   IN  IF file_name # expected_filename
                          /\ ~EndsWith(file_name, <<"_","t","e","s","t">>)
                       THEN [r EXCEPT !.warnings = Append(@,
                                NamingWarning(path, file_name, class_name,
                                              expected_filename))]
                       ELSE r
              ELSE r
    IN  IF In(<<"e","x","t","e","n","d","s"," ","S","t","a","t","e","l","e","s","s","W","i","d","g","e","t">>, text)
        THEN IF ~In(<<"W","i","d","g","e","t"," ","b","u","i","l","d","(","B","u","i","l","d","C","o","n","t","e","x","t"," ","c","o","n","t","e","x","t",")">>, text)
             THEN [r1 EXCEPT !.structure_issues = Append(@,
                      [file |-> path, error |-> <<"W","i","d","g","e","t"," ","m","i","s","s","i","n","g"," ","b","u","i","l","d"," ","m","e","t","h","o","d">>])]
             ELSE r1
        ELSE r1

\* _check_structure
CheckStructure(path, text, r) ==
    LET class_matches == ClassMatches(text, 1)
        file_name == Stem(path)
        r1 == IF class_matches # << >> /\ Len(class_matches) = 1
              THEN LET class_name == class_matches[1]
                       expected_filename == CamelToSnake(class_name)
                   IN  IF file_name # expected_filename
                          /\ ~EndsWith(file_name, <<"_","t","e","s","t">>)
                       THEN [r EXCEPT !.warnings = Append(@,
                                NamingWarning(path, file_name, class_name,
                                              expected_filename))]
                       ELSE r
              ELSE r
    IN  IF In(<<"e","x","t","e","n","d","s"," ","S","t","a","t","e","l","e","s","s","W","i","d","g","e","t">>, text) \/ In(<<"e","x","t","e","n","d","s"," ","S","t","a","t","e","f","u","l","W","i","d","g","e","t">>, text)
        THEN IF ~In(<<"W","i","d","g","e","t"," ","b","u","i","l","d","(","B","u","i","l","d","C","o","n","t","e","x","t"," ","c","o","n","t","e","x","t",")">>, text)
             THEN [r1 EXCEPT !.structure_issues = Append(@,
                      [file |-> path, error |-> <<"W","i","d","g","e","t"," ","m","i","s","s","i","n","g"," ","b","u","i","l","d"," ","m","e","t","h","o","d">>])]
             ELSE r1
        ELSE r1

\* str(e) of the exception open()/read() raise on a file that cannot be read
ReadError(f) == <<"[","E","r","r","n","o"," ","1","3","]"," ","P","e","r","m","i","s","s","i","o","n"," ","d","e","n","i","e","d",":"," ","'">> \o f.name \o <<"'">>

\* _validate_dart_file: the file's path is modelled by its name
ValidateDartFile(f, r) ==
    IF f.readable
    THEN CheckStructure(f.name, f.content,
             CheckImports(f.name, f.content,
                 CheckSyntax(f.name, f.content, r)))
    ELSE [r EXCEPT !.syntax_errors = Append(@,
             [file |-> f.name, error |-> <<"F","a","i","l","e","d"," ","t","o"," ","r","e","a","d"," ","f","i","l","e",":"," ">> \o ReadError(f)])]

\* variant: the warnings are counted among the issues
LintSummaryCountingWarnings(r) ==
    LET total_issues == Len(r.syntax_errors) + Len(r.import_errors)
                        + Len(r.structure_issues) + Len(r.warnings)
    IN  [total_files |-> r.files_checked,
         total_issues |-> total_issues,
         total_warnings |-> Len(r.warnings),
         syntax_errors |-> Len(r.syntax_errors),
         import_errors |-> Len(r.import_errors),
         structure_issues |-> Len(r.structure_issues),
         status |-> IF total_issues = 0 THEN "PASS" ELSE "ISSUES_FOUND"]

\* _generate_summary
LintSummary(r) ==
    LET total_issues == Len(r.syntax_errors) + Len(r.import_errors)
                        + Len(r.structure_issues)
    IN  [total_files |-> r.files_checked,
         total_issues |-> total_issues,
         total_warnings |-> Len(r.warnings),
         syntax_errors |-> Len(r.syntax_errors),
         import_errors |-> Len(r.import_errors),
         structure_issues |-> Len(r.structure_issues),
         status |-> IF total_issues = 0 THEN "PASS" ELSE "ISSUES_FOUND"]

----------------------------------------------------------------------------
(* The entry points, step by step                                          *)

\* variant: the category's score replaces the running total
RecordOverwrite(r, category, checks, score) ==
    [r EXCEPT ![category] = checks, !.ux_score = score]

\* the last three statements of every category validator: store the checks,
\* add the category's score to the running total
Record(r, category, checks, score) ==
    [r EXCEPT ![category] = checks, !.ux_score = @ + score]

\* main() of either script constructs one validator over the tree
Init ==
    /\ tree \in Trees
    /\ pubspec \in 1..Len(PubspecCatalog)
    /\ tool = "none"
    /\ pc = "idle"
    /\ run = 0
    /\ idx = 0
    /\ uxv = NewUxValidator
    /\ dartv = NewDartValidator
    /\ source = << >>
    /\ results = EmptyDict
    /\ first = EmptyDict
    /\ flips = 0

\* variant: a second call goes on filling the results dict of the first
UxBeginReusingResults ==
    /\ \/ tool = "none" /\ pc = "idle"
       \/ tool = "ux" /\ pc = "returned" /\ run < MaxRuns
    /\ tool' = "ux"
    /\ pc' = "material_design"
    /\ run' = run + 1
    /\ first' = IF run = 1 THEN results ELSE first
    /\ results' = IF run = 0 THEN NewUxResults ELSE results
    /\ UNCHANGED <<tree, pubspec, idx, uxv, dartv, source, flips>>

\* validate_complete_ux is called: on a new instance, or again on the same one
UxBegin ==
    /\ \/ tool = "none" /\ pc = "idle"
       \/ tool = "ux" /\ pc = "returned" /\ run < MaxRuns
    /\ tool' = "ux"
    /\ pc' = "material_design"
    /\ run' = run + 1
    /\ first' = IF run = 1 THEN results ELSE first
    /\ results' = NewUxResults
    /\ UNCHANGED <<tree, pubspec, idx, uxv, dartv, source, flips>>

ValidateMaterialDesign ==
    /\ tool = "ux" /\ pc = "material_design"
    /\ results' = Record(results, "material_design", MaterialChecks(tree),
                         MaterialScore(MaterialChecks(tree)))
    /\ pc' = "accessibility"
    /\ UNCHANGED <<tree, pubspec, tool, run, idx, uxv, dartv, source, first, flips>>

ValidateAccessibility ==
    /\ tool = "ux" /\ pc = "accessibility"
    /\ results' = Record(results, "accessibility", AccessibilityChecks(tree),
                         AccessibilityScore(AccessibilityChecks(tree)))
    /\ pc' = "performance"
    /\ UNCHANGED <<tree, pubspec, tool, run, idx, uxv, dartv, source, first, flips>>

ValidatePerformanceUx ==
    /\ tool = "ux" /\ pc = "performance"
    /\ results' = Record(results, "performance", PerformanceChecks(tree),
                         PerformanceScore(PerformanceChecks(tree)))
    /\ pc' = "animations"
    /\ UNCHANGED <<tree, pubspec, tool, run, idx, uxv, dartv, source, first, flips>>

ValidateAnimations ==
    /\ tool = "ux" /\ pc = "animations"
    /\ results' = Record(results, "animations", AnimationChecks(tree),
                         AnimationScore(AnimationChecks(tree)))
    /\ pc' = "theming"
    /\ UNCHANGED <<tree, pubspec, tool, run, idx, uxv, dartv, source, first, flips>>

ValidateTheming ==
    /\ tool = "ux" /\ pc = "theming"
    /\ results' = Record(results, "theming", ThemingChecks(tree, pubspec),
                         ThemingScore(ThemingChecks(tree, pubspec)))
    /\ pc' = "responsive_design"
    /\ UNCHANGED <<tree, pubspec, tool, run, idx, uxv, dartv, source, first, flips>>

ValidateResponsiveDesign ==
    /\ tool = "ux" /\ pc = "responsive_design"
    /\ results' = Record(results, "responsive_design", ResponsiveChecks(tree),
                         ResponsiveScore(ResponsiveChecks(tree)))
    /\ pc' = "user_flows"
    /\ UNCHANGED <<tree, pubspec, tool, run, idx, uxv, dartv, source, first, flips>>

ValidateUserFlows ==
    /\ tool = "ux" /\ pc = "user_flows"
    /\ results' = Record(results, "user_flows", UserFlowChecks(tree),
                         UserFlowScore(UserFlowChecks(tree)))
    /\ pc' = "calculate"
    /\ UNCHANGED <<tree, pubspec, tool, run, idx, uxv, dartv, source, first, flips>>

\* variant: the final score is also kept on the instance (self.ux_score)
CalculateUxScoreOnInstance ==
    /\ tool \in {"ux", "grade"} /\ pc = "calculate"
    /\ results' = [results EXCEPT !.summary = UxSummary(results, uxv.max_score)]
    /\ uxv' = [uxv EXCEPT !.ux_score = results.ux_score]
    /\ pc' = "returned"
    /\ UNCHANGED <<tree, pubspec, tool, run, idx, dartv, source, first, flips>>

\* _calculate_ux_score, then validate_complete_ux returns results
CalculateUxScore ==
    /\ tool \in {"ux", "grade"} /\ pc = "calculate"
    /\ results' = [results EXCEPT !.summary = UxSummary(results, uxv.max_score)]
    /\ pc' = "returned"
    /\ UNCHANGED <<tree, pubspec, tool, run, idx, uxv, dartv, source, first, flips>>

\* validate_project is called: on a new instance, or again on the same one
LintBegin ==
    /\ \/ tool = "none" /\ pc = "idle"
       \/ tool = "lint" /\ pc = "returned" /\ run < MaxRuns
    /\ tool' = "lint"
    /\ pc' = "files"
    /\ run' = run + 1
    /\ idx' = 0
    /\ first' = IF run = 1 THEN results ELSE first
    /\ results' = NewLintResults
    /\ UNCHANGED <<tree, pubspec, uxv, dartv, source, flips>>

\* variant: a file that cannot be read ends the call with the exception
LintFileRaising ==
    /\ tool = "lint" /\ pc = "files"
    /\ idx < Len(Rglob(tree, <<"*",".","d","a","r","t">>))
    /\ IF File(Rglob(tree, <<"*",".","d","a","r","t">>)[idx + 1]).readable
       THEN /\ results' = [ValidateDartFile(File(Rglob(tree, <<"*",".","d","a","r","t">>)[idx + 1]), results)
                             EXCEPT !.files_checked = @ + 1]
            /\ idx' = idx + 1
            /\ pc' = pc
       ELSE /\ pc' = "raised"
            /\ UNCHANGED <<results, idx>>
    /\ UNCHANGED <<tree, pubspec, tool, run, uxv, dartv, source, first, flips>>

\* one iteration of the loop over dart_files
LintFile ==
    /\ tool = "lint" /\ pc = "files"
    /\ idx < Len(Rglob(tree, <<"*",".","d","a","r","t">>))
    /\ results' = [ValidateDartFile(File(Rglob(tree, <<"*",".","d","a","r","t">>)[idx + 1]), results)
                     EXCEPT !.files_checked = @ + 1]
    /\ idx' = idx + 1
    /\ UNCHANGED <<tree, pubspec, tool, pc, run, uxv, dartv, source, first, flips>>

\* the loop is over: _generate_summary, then validate_project returns results
GenerateSummary ==
    /\ tool = "lint" /\ pc = "files"
    /\ idx = Len(Rglob(tree, <<"*",".","d","a","r","t">>))
    /\ results' = [results EXCEPT !.summary = LintSummary(results)]
    /\ pc' = "returned"
    /\ UNCHANGED <<tree, pubspec, tool, run, idx, uxv, dartv, source, first, flips>>

Next ==
    \/ UxBegin
    \/ ValidateMaterialDesign
    \/ ValidateAccessibility
    \/ ValidatePerformanceUx
    \/ ValidateAnimations
    \/ ValidateTheming
    \/ ValidateResponsiveDesign
    \/ ValidateUserFlows
    \/ CalculateUxScore
    \/ LintBegin
    \/ LintFile
    \/ GenerateSummary

Spec == Init /\ [][Next]_vars

----------------------------------------------------------------------------
(* _calculate_ux_score on its own: every accumulated score                 *)

MaxScoreInput == 100    \* largest accumulated score handed to _calculate_ux_score

\* the rule names of each category: the keys of its checks dict
Rules ==
    [material_design |->
        {"theme_implementation", "component_usage", "color_system", "typography",
         "elevation_shadows"},
     accessibility |->
        {"semantic_labels", "focus_management", "color_contrast", "text_scaling",
         "screen_reader_support"},
     performance |->
        {"image_caching", "lazy_loading", "performance_monitoring",
         "memory_optimization", "smooth_animations"},
     animations |->
        {"micro_interactions", "page_transitions", "loading_animations",
         "gesture_animations", "hero_animations"},
     theming |->
        {"dark_light_theme", "consistent_colors", "custom_fonts", "theme_switching",
         "brand_consistency"},
     responsive_design |->
        {"screen_size_adaptation", "orientation_handling", "safe_area_usage",
         "flexible_layouts", "breakpoint_handling"},
     user_flows |->
        {"onboarding_flow", "authentication_flow", "error_handling_flow",
         "navigation_flow", "feedback_flow"}]

CategorySet == {Categories[i] : i \in 1..Len(Categories)}

\* rule outcomes in which every rule of a category has the same outcome
UniformOutcomes ==
    {[c \in CategorySet |-> [k \in Rules[c] |-> b[c]]] : b \in [CategorySet -> BOOLEAN]}

\* a results dict holding the given rule outcomes, before any score is added
WithOutcomes(outcomes) ==
    [k \in DOMAIN NewUxResults |->
        IF k \in CategorySet THEN outcomes[k] ELSE NewUxResults[k]]

InitGrade ==
    /\ tree = << >>
    /\ pubspec = 1
    /\ tool = "grade"
    /\ pc = "calculate"
    /\ run = 1
    /\ idx = 0
    /\ uxv = NewUxValidator
    /\ dartv = NewDartValidator
    /\ source = << >>
    /\ \E s \in 0..MaxScoreInput, b \in BOOLEAN :
          results = [WithOutcomes([c \in CategorySet |-> [k \in Rules[c] |-> b]])
                       EXCEPT !.ux_score = s]
    /\ first = EmptyDict
    /\ flips = 0

SpecGrade == InitGrade /\ [][CalculateUxScore]_vars

----------------------------------------------------------------------------
(* The scoring of given rule outcomes, and one rule switched on            *)

MaxFlips == 2      \* most rules switched on, one after the other

\* the score a category validator adds for its checks
ScoreOf(category, checks) ==
    CASE category = "material_design" -> MaterialScore(checks)
      [] category = "accessibility" -> AccessibilityScore(checks)
      [] category = "performance" -> PerformanceScore(checks)
      [] category = "animations" -> AnimationScore(checks)
      [] category = "theming" -> ThemingScore(checks)
      [] category = "responsive_design" -> ResponsiveScore(checks)
      [] category = "user_flows" -> UserFlowScore(checks)

\* validate_complete_ux when the validators find the given rule outcomes
RECURSIVE Evaluate(_, _, _, _)
Evaluate(r, outcomes, i, max_score) ==
    IF i > Len(Categories)
    THEN [r EXCEPT !.summary = UxSummary(r, max_score)]
    ELSE Evaluate(Record(r, Categories[i], outcomes[Categories[i]],
                         ScoreOf(Categories[i], outcomes[Categories[i]])),
                  outcomes, i + 1, max_score)

InitRules ==
    /\ tree = << >>
    /\ pubspec = 1
    /\ tool = "rules"
    /\ pc = "returned"
    /\ run = 1
    /\ idx = 0
    /\ uxv = NewUxValidator
    /\ dartv = NewDartValidator
    /\ source = << >>
    /\ \E o \in UniformOutcomes : results = Evaluate(NewUxResults, o, 1, uxv.max_score)
    /\ first = EmptyDict
    /\ flips = 0

\* the same project with one more rule satisfied, evaluated again
Flip(c, k) ==
    /\ tool = "rules"
    /\ flips < MaxFlips
    /\ ~results[c][k]
    /\ results' = Evaluate(NewUxResults,
                           [d \in CategorySet |->
                               IF d = c THEN [results[c] EXCEPT ![k] = TRUE]
                               ELSE results[d]],
                           1, uxv.max_score)
    /\ flips' = flips + 1
    /\ UNCHANGED <<tree, pubspec, tool, pc, run, idx, uxv, dartv, source, first>>

NextRules == \E c \in CategorySet : \E k \in Rules[c] : Flip(c, k)

SpecRules == InitRules /\ [][NextRules]_vars

----------------------------------------------------------------------------
(* _check_syntax on its own: every short text, and pairs of sample lines   *)

MaxTextLen == 4    \* longest text enumerated character by character

SyntaxAlphabet == {"x", "=", ">", ";", "{", "}", ",", " ", "\n"}

SampleLines ==
    { <<"x"," ","="," ","c","o","m","p","u","t","e","(",")">>,
      <<" "," ","x"," ","="," ","c","o","m","p","u","t","e","(",")"," "," ">>,
      <<"x"," ","="," ","c","o","m","p","u","t","e","(",")",";">>,
      <<"v","a","r"," ","m"," ","="," ","{">>,
      <<"f","i","n","a","l"," ","m"," ","="," ","{","'","a","'",":"," ","1","}">>,
      <<"i","f"," ","(","a"," ","="," ","b",")">>,
      <<"/","/"," ","x"," ","="," ","c","o","m","p","u","t","e","(",")">>,
      <<"t","o","t","a","l"," ","="," ","a"," ","+"," ","b",",">>,
      <<"f","(","x",")"," ","=",">"," ","y"," ","="," ","1">>,
      <<"/","/"," ","{","{">>,
      <<"}",")"," ","}">>,
      <<>> }

SyntaxInputs ==
    UNION { [1..n -> SyntaxAlphabet] : n \in 0..MaxTextLen }
    \cup { JoinLines(<<a, b>>) : a \in SampleLines, b \in SampleLines }

\* the path _check_syntax is given
SyntaxPath == <<"l","i","b","/","s","a","m","p","l","e",".","d","a","r","t">>

InitSyntax ==
    /\ tree = << >>
    /\ pubspec = 1
    /\ tool = "syntax"
    /\ pc = "check"
    /\ run = 1
    /\ idx = 0
    /\ uxv = NewUxValidator
    /\ dartv = NewDartValidator
    /\ source \in SyntaxInputs
    /\ results = NewLintResults
    /\ first = EmptyDict
    /\ flips = 0

CheckSyntaxCall ==
    /\ tool = "syntax" /\ pc = "check"
    /\ results' = CheckSyntax(SyntaxPath, source, results)
    /\ pc' = "checked"
    /\ UNCHANGED <<tree, pubspec, tool, run, idx, uxv, dartv, source, first, flips>>

SpecSyntax == InitSyntax /\ [][CheckSyntaxCall]_vars

----------------------------------------------------------------------------
(* The last three statements of a category validator on their own: every   *)
(* outcome of the category's rules                                         *)

InitPoints ==
    /\ tree = << >>
    /\ pubspec = 1
    /\ tool = "points"
    /\ pc \in CategorySet
    /\ run = 1
    /\ idx = 0
    /\ uxv = NewUxValidator
    /\ dartv = NewDartValidator
    /\ source = << >>
    /\ results = NewUxResults
    /\ first = EmptyDict
    /\ flips = 0

\* results[category] = checks; score = sum(checks.values()) * weight;
\* results['ux_score'] += score
AwardPoints ==
    /\ tool = "points"
    /\ \E checks \in [Rules[pc] -> BOOLEAN] :
          results' = Record(results, pc, checks, ScoreOf(pc, checks))
    /\ tool' = "scored"
    /\ UNCHANGED <<tree, pubspec, pc, run, idx, uxv, dartv, source, first, flips>>

SpecPoints == InitPoints /\ [][AwardPoints]_vars

----------------------------------------------------------------------------
(* The test simulator (comprehensive_test_simulator.py)                    *)
(*                                                                         *)
(* Its project tree holds files with a path below the root.  A draw of     *)
(* random.uniform is a choice among a few values of the interval, a rate   *)
(* in thousandths and a percentage in whole points.  A ZeroDivisionError   *)
(* leaves simulate_complete_testing: no step catches it.                   *)

MaxSimFiles == 3    \* most files in one simulator project tree

AuthUnitTest ==
    [path |-> <<"t","e","s","t","/","u","n","i","t","/","a","u","t","h","_","s","e","r","v","i","c","e","_","t","e","s","t",".","d","a","r","t">>, readable |-> TRUE,
     content |-> JoinLines(<<
        <<"t","e","s","t","(","'","l","o","g","i","n","'",","," ","(",")"," ","{"," ","e","x","p","e","c","t","(","a",","," ","1",")",";"," ","e","x","p","e","c","t","(","b",","," ","2",")",";"," ","}",")",";">>,
        <<"t","e","s","t"," ","(","'","l","o","g","o","u","t","'",","," ","(",")"," ","{"," ","e","x","p","e","c","t"," ","(","c",","," ","3",")",";"," ","}",")",";">> >>)]

CardWidgetTest ==
    [path |-> <<"t","e","s","t","/","w","i","d","g","e","t","/","c","a","r","d","_","t","e","s","t",".","d","a","r","t">>, readable |-> TRUE,
     content |-> JoinLines(<<
        <<"t","e","s","t","(","'","r","e","n","d","e","r","s","'",","," ","(",")"," ","{"," ","e","x","p","e","c","t","(","f","i","n","d",".","t","e","x","t","(","'","x","'",")",","," ","f","i","n","d","s","O","n","e","W","i","d","g","e","t",")",";"," ","}",")",";">>,
        <<"t","e","s","t","(","'","t","a","p","s","'",","," ","(",")"," ","{","}",")",";">>,
        <<"t","e","s","t","(","'","s","c","r","o","l","l","s","'",","," ","(",")"," ","{","}",")",";">> >>)]

FlowIntegrationTest ==
    [path |-> <<"t","e","s","t","/","i","n","t","e","g","r","a","t","i","o","n","/","f","l","o","w","_","t","e","s","t",".","d","a","r","t">>, readable |-> TRUE,
     content |-> <<"t","e","s","t","(","'","c","h","e","c","k","o","u","t","'",","," ","(",")"," ","{","}",")",";">>]

ApiService ==
    [path |-> <<"l","i","b","/","s","e","r","v","i","c","e","s","/","a","p","i",".","d","a","r","t">>, readable |-> TRUE,
     content |-> JoinLines(<< <<"c","l","a","s","s"," ","A","p","i"," ","{">>, <<" "," ","g","e","t","(",")"," ","{","}">>, <<"}">>, <<>> >>)]

CardWidget ==
    [path |-> <<"l","i","b","/","w","i","d","g","e","t","s","/","c","a","r","d",".","d","a","r","t">>, readable |-> TRUE,
     content |-> JoinLines(<< <<"c","l","a","s","s"," ","C","a","r","d"," ","{">>, <<"}">> >>)]

LibMainUnreadable ==
    [path |-> <<"l","i","b","/","m","a","i","n",".","d","a","r","t">>, readable |-> FALSE, content |-> << >>]

\* the files a simulator project tree is drawn from
SimCatalog ==
    <<AuthUnitTest, CardWidgetTest, FlowIntegrationTest, ApiService, CardWidget,
      LibMainUnreadable>>

SimFile(i) == SimCatalog[i]

\* the trees of at most MaxSimFiles catalogue files, in catalogue order
SimTrees ==
    UNION { {s \in [1..n -> 1..Len(SimCatalog)] :
                \A a, b \in 1..n : a < b => s[a] < s[b]} : n \in 0..MaxSimFiles }

\* rglob("<dirs>/**/<name pattern>"): the path holds the directories at some
\* component boundary and below them, at any depth, a matching name; the
\* pattern is written with one '*' standing for '**/*'
SimRglob(t, pattern) ==
    SelectSeq(t, LAMBDA i :
        LET path == SimFile(i).path IN
        \E k \in 1..Len(path) :
            /\ k = 1 \/ path[k - 1] = "/"
            /\ GlobMatch(pattern, Drop(path, k - 1)))

\* whether word, blanks and '(' stand at position k of the text
CallAt(text, word, k) ==
    /\ k + Len(word) <= Len(text)
    /\ \A j \in 1..Len(word) : text[k + j - 1] = word[j]
    /\ LET p == SkipWhile(text, k + Len(word), Whitespace)
       IN  p <= Len(text) /\ text[p] = "("

\* len(re.findall(word + r'\s*\(', content))
CountCalls(text, word) == Cardinality({k \in 1..Len(text) : CallAt(text, word, k)})

\* _count_lines: len(f.readlines()), 0 for a file that cannot be read
CountLines(f) ==
    IF ~f.readable \/ f.content = << >> THEN 0
    ELSE CountChar(f.content, "\n")
         + (IF f.content[Len(f.content)] = "\n" THEN 0 ELSE 1)

\* sum(...) of a list of numbers
RECURSIVE SumSeq(_)
SumSeq(numbers) ==
    IF numbers = << >> THEN 0 ELSE Head(numbers) + SumSeq(Tail(numbers))

\* int(n * rate) for a rate in thousandths
Scaled(n, rate) == (n * rate) \div 1000

\* the values a draw of random.uniform(lo, hi) is taken from
UnitRates == {950, 980}
WidgetRates == {940, 970}
IntegrationRates == {880, 950}

TestsIn(f) == IF f.readable THEN CountCalls(f.content, <<"t","e","s","t">>) ELSE 0
ExpectsIn(f) == IF f.readable THEN CountCalls(f.content, <<"e","x","p","e","c","t">>) ELSE 0
AuthTestsIn(f) == IF In(<<"a","u","t","h">>, f.path) THEN TestsIn(f) ELSE 0
ProductTestsIn(f) ==
    IF ~In(<<"a","u","t","h">>, f.path) /\ In(<<"p","r","o","d","u","c","t">>, f.path) THEN TestsIn(f) ELSE 0

\* _simulate_unit_tests (the fields the summary reads, and the categories' totals)
SimulateUnitTests(t, rate) ==
    LET unit_test_files == SimRglob(t, <<"t","e","s","t","/","u","n","i","t","/","*","_","t","e","s","t",".","d","a","r","t">>)
        auth_tests == SumSeq([k \in 1..Len(unit_test_files) |->
                                 AuthTestsIn(SimFile(unit_test_files[k]))])
        product_tests == SumSeq([k \in 1..Len(unit_test_files) |->
                                    ProductTestsIn(SimFile(unit_test_files[k]))])
        total_expect_statements == SumSeq([k \in 1..Len(unit_test_files) |->
                                              ExpectsIn(SimFile(unit_test_files[k]))])
        total_tests == auth_tests + product_tests
        passed == Scaled(total_tests, rate)
    IN  [tests_run |-> total_tests, tests_passed |-> passed,
         tests_failed |-> total_tests - passed,
         expectations_met |-> Scaled(total_expect_statements, 970),
         authentication_tests |-> auth_tests,
         product_service_tests |-> product_tests]

\* _simulate_widget_tests
SimulateWidgetTests(t, rate) ==
    LET widget_test_files == SimRglob(t, <<"t","e","s","t","/","w","i","d","g","e","t","/","*","_","t","e","s","t",".","d","a","r","t">>)
        total_tests == SumSeq([k \in 1..Len(widget_test_files) |->
                                  TestsIn(SimFile(widget_test_files[k]))])
        passed == Scaled(total_tests, rate)
    IN  [tests_run |-> total_tests, tests_passed |-> passed,
         tests_failed |-> total_tests - passed]

\* _simulate_integration_tests
SimulateIntegrationTests(t, rate) ==
    LET integration_files == SimRglob(t, <<"t","e","s","t","/","i","n","t","e","g","r","a","t","i","o","n","/","*","_","t","e","s","t",".","d","a","r","t">>)
        total_tests == SumSeq([k \in 1..Len(integration_files) |->
                                  TestsIn(SimFile(integration_files[k]))])
        passed == Scaled(total_tests, rate)
    IN  [tests_run |-> total_tests, tests_passed |-> passed,
         tests_failed |-> total_tests - passed]

\* a quotient a / b of the source, kept exact as numerator and denominator
Ratio(a, b) == [num |-> a, den |-> b]

\* _simulate_test_execution: the three suites and their summary; the success
\* rate is guarded, 0 without tests
SimulateTestExecution(t, unit_rate, widget_rate, integration_rate) ==
    LET unit == SimulateUnitTests(t, unit_rate)
        widget == SimulateWidgetTests(t, widget_rate)
        integration == SimulateIntegrationTests(t, integration_rate)
        total_tests == unit.tests_run + widget.tests_run + integration.tests_run
        total_passed == unit.tests_passed + widget.tests_passed
                           + integration.tests_passed
        total_failed == unit.tests_failed + widget.tests_failed
                           + integration.tests_failed
    IN  [unit_tests |-> unit, widget_tests |-> widget,
         integration_tests |-> integration,
         summary |-> [total_tests |-> total_tests, total_passed |-> total_passed,
                      total_failed |-> total_failed,
                      success_rate |-> IF total_tests > 0
                                       THEN Ratio(total_passed * 100, total_tests)
                                       ELSE Ratio(0, 1)]]

\* the categories of _simulate_coverage_analysis and the interval each draws
\* its coverage percentage from
CoverageRange ==
    [core_services |-> {88, 96}, ui_components |-> {78, 89},
     business_logic |-> {82, 92}, data_models |-> {95, 99}, utilities |-> {75, 85}]

CoverageCategories == DOMAIN CoverageRange

\* the order of for category, files in categories.items()
CoverageOrder ==
    <<"core_services", "ui_components", "business_logic", "data_models", "utilities">>

\* the category the if/elif chain puts a file in
CoverageCategoryOf(f) ==
    IF In(<<"s","e","r","v","i","c","e","s">>, f.path) THEN "core_services"
    ELSE IF In(<<"w","i","d","g","e","t","s">>, f.path) \/ In(<<"s","c","r","e","e","n","s">>, f.path) THEN "ui_components"
    ELSE IF In(<<"f","e","a","t","u","r","e","s">>, f.path) THEN "business_logic"
    ELSE IF In(<<"m","o","d","e","l","s">>, f.path) THEN "data_models"
    ELSE "utilities"

\* round(num / den) and round(num / den, 1) in tenths, halves to the even
\* neighbour.  The source rounds the binary float; for the quotients of this
\* model no tenth lies halfway.
RoundHalfEven(num, den) ==
    LET q == num \div den
        r == num % den
    IN  IF 2 * r < den THEN q
        ELSE IF 2 * r > den THEN q + 1
        ELSE IF q % 2 = 0 THEN q ELSE q + 1

RoundTenths(num, den) == Ratio(RoundHalfEven(10 * num, den), 10)

\* _simulate_coverage_analysis for the drawn percentages; the caller has
\* checked that the final division is defined
SimulateCoverageAnalysis(t, pct) ==
    LET dart_files == SimRglob(t, <<"l","i","b","/","*",".","d","a","r","t">>)
        files(c) == SelectSeq(dart_files, LAMBDA i : CoverageCategoryOf(SimFile(i)) = c)
        filled == {c \in CoverageCategories : files(c) # << >>}
        lines(c) == SumSeq([k \in 1..Len(files(c)) |-> CountLines(SimFile(files(c)[k]))])
    IN  [overall_coverage |->
            RoundTenths(SumSeq([k \in 1..Len(CoverageOrder) |->
                                   pct[CoverageOrder[k]] * Len(files(CoverageOrder[k]))]),
                        Len(dart_files)),
         by_category |->
            [c \in filled |->
                [files |-> Len(files(c)),
                 coverage_percentage |-> pct[c],
                 lines_covered |-> (lines(c) * pct[c]) \div 100,
                 lines_total |-> lines(c)]]]

\* _simulate_performance_testing: the fields that are not formatted draws
SimulatePerformanceTesting(dropped_frames) ==
    [memory_leaks_detected |-> 0, dropped_frames |-> dropped_frames,
     smooth_scrolling |-> "Excellent"]

\* _simulate_integration_testing: the fields that are not formatted draws
SimulateIntegrationTesting ==
    [total_endpoints |-> 15, tested_endpoints |-> 14, passing_endpoints |-> 13]

\* _assess_code_quality: the metrics computed from the tree; the caller has
\* checked that the division is defined
AssessCodeQuality(t) ==
    LET dart_files == SimRglob(t, <<"l","i","b","/","*",".","d","a","r","t">>)
        total_lines == SumSeq([k \in 1..Len(dart_files) |-> CountLines(SimFile(dart_files[k]))])
    IN  [total_lines_of_code |-> total_lines,
         total_dart_files |-> Len(dart_files),
         average_file_size |-> RoundHalfEven(total_lines, Len(dart_files))]

\* _generate_final_verdict: test_score + coverage_score + 85 * 0.2 + 90 * 0.1,
\* kept exact over the denominator 100 * den(success_rate)
GenerateFinalVerdict(r) ==
    LET rate == r.test_execution.summary.success_rate
        coverage == r.coverage_analysis.overall_coverage
        overall_score ==
            Ratio(40 * rate.num + 3 * coverage.num * rate.den + 2600 * rate.den,
                  100 * rate.den)
        at_least(n) == overall_score.num >= n * overall_score.den
    IN  [overall_score |-> RoundTenths(overall_score.num, overall_score.den),
         grade |-> IF at_least(90) THEN "A+ (Production Ready)"
                   ELSE IF at_least(85) THEN "A (Very Good)"
                   ELSE IF at_least(80) THEN "B+ (Good)"
                   ELSE "B (Needs Work)",
         total_tests_executed |-> r.test_execution.summary.total_tests]

\* results = {...} of simulate_complete_testing
NewSimResults ==
    [test_execution |-> EmptyDict, coverage_analysis |-> EmptyDict,
     performance_metrics |-> EmptyDict, integration_results |-> EmptyDict,
     quality_assessment |-> EmptyDict, final_verdict |-> EmptyDict]

\* main() constructs the simulator and calls simulate_complete_testing
InitSim ==
    /\ tree \in SimTrees
    /\ pubspec = 1
    /\ tool = "sim"
    /\ pc = "test_execution"
    /\ run = 1
    /\ idx = 0
    /\ uxv = NewUxValidator
    /\ dartv = NewDartValidator
    /\ source = << >>
    /\ results = NewSimResults
    /\ first = EmptyDict
    /\ flips = 0

SimTestExecution ==
    /\ tool = "sim" /\ pc = "test_execution"
    /\ \E u \in UnitRates, w \in WidgetRates, i \in IntegrationRates :
          results' = [results EXCEPT
                        !.test_execution = SimulateTestExecution(tree, u, w, i)]
    /\ pc' = "coverage_analysis"
    /\ UNCHANGED <<tree, pubspec, tool, run, idx, uxv, dartv, source, first, flips>>

\* overall_coverage /= sum(len(files) ...) raises ZeroDivisionError when no
\* file is found under lib/
SimCoverageAnalysis ==
    /\ tool = "sim" /\ pc = "coverage_analysis"
    /\ IF SimRglob(tree, <<"l","i","b","/","*",".","d","a","r","t">>) = << >>
       THEN /\ pc' = "raised"
            /\ UNCHANGED results
       ELSE /\ \E pct \in [CoverageCategories -> UNION {CoverageRange[c] : c \in CoverageCategories}] :
                  /\ \A c \in CoverageCategories : pct[c] \in CoverageRange[c]
                  /\ results' = [results EXCEPT
                                   !.coverage_analysis = SimulateCoverageAnalysis(tree, pct)]
            /\ pc' = "performance_metrics"
    /\ UNCHANGED <<tree, pubspec, tool, run, idx, uxv, dartv, source, first, flips>>

SimPerformanceTesting ==
    /\ tool = "sim" /\ pc = "performance_metrics"
    /\ \E dropped_frames \in {2, 8} :
          results' = [results EXCEPT
                        !.performance_metrics = SimulatePerformanceTesting(dropped_frames)]
    /\ pc' = "integration_results"
    /\ UNCHANGED <<tree, pubspec, tool, run, idx, uxv, dartv, source, first, flips>>

SimIntegrationTesting ==
    /\ tool = "sim" /\ pc = "integration_results"
    /\ results' = [results EXCEPT !.integration_results = SimulateIntegrationTesting]
    /\ pc' = "quality_assessment"
    /\ UNCHANGED <<tree, pubspec, tool, run, idx, uxv, dartv, source, first, flips>>

\* total_lines / len(dart_files) raises ZeroDivisionError when no file is
\* found under lib/
SimAssessCodeQuality ==
    /\ tool = "sim" /\ pc = "quality_assessment"
    /\ IF SimRglob(tree, <<"l","i","b","/","*",".","d","a","r","t">>) = << >>
       THEN /\ pc' = "raised"
            /\ UNCHANGED results
       ELSE /\ results' = [results EXCEPT !.quality_assessment = AssessCodeQuality(tree)]
            /\ pc' = "final_verdict"
    /\ UNCHANGED <<tree, pubspec, tool, run, idx, uxv, dartv, source, first, flips>>

\* _generate_final_verdict, then simulate_complete_testing returns results
SimFinalVerdict ==
    /\ tool = "sim" /\ pc = "final_verdict"
    /\ results' = [results EXCEPT !.final_verdict = GenerateFinalVerdict(results)]
    /\ pc' = "returned"
    /\ UNCHANGED <<tree, pubspec, tool, run, idx, uxv, dartv, source, first, flips>>

NextSim ==
    \/ SimTestExecution
    \/ SimCoverageAnalysis
    \/ SimPerformanceTesting
    \/ SimIntegrationTesting
    \/ SimAssessCodeQuality
    \/ SimFinalVerdict

SpecSim == InitSim /\ [][NextSim]_vars

----------------------------------------------------------------------------
(* The exit status of the two entry points                                 *)

\* variant: warnings fail the run as well
LintExitOnWarnings(r) ==
    IF r.summary.total_issues + r.summary.total_warnings = 0 THEN 0 ELSE 1

\* main() of validate_dart.py: sys.exit(0 if summary['total_issues'] == 0 else 1)
LintExit(r) == IF r.summary.total_issues = 0 THEN 0 ELSE 1

\* main() of industrial_ux_validator.py returns summary['percentage'] >= 90
\* and the script ends with exit(0 if success else 1)
UxExit(r) == IF r.summary.percentage >= 90 THEN 0 ELSE 1

\* the simulator's main(): return final['overall_score'] >= 90, exit(0 if success else 1)
SimExit(r) ==
    IF r.final_verdict.overall_score.num >= 90 * r.final_verdict.overall_score.den
    THEN 0 ELSE 1

----------------------------------------------------------------------------
(* The seven category validators called in any order                       *)

\* the rule outcomes the seven validators find in a tree
ChecksOf(t, p) ==
    [material_design |-> MaterialChecks(t),
     accessibility |-> AccessibilityChecks(t),
     performance |-> PerformanceChecks(t),
     animations |-> AnimationChecks(t),
     theming |-> ThemingChecks(t, p),
     responsive_design |-> ResponsiveChecks(t),
     user_flows |-> UserFlowChecks(t)]

\* the rule outcomes one category's validator finds in a tree
CategoryChecks(c, t, p) ==
    CASE c = "material_design" -> MaterialChecks(t)
      [] c = "accessibility" -> AccessibilityChecks(t)
      [] c = "performance" -> PerformanceChecks(t)
      [] c = "animations" -> AnimationChecks(t)
      [] c = "theming" -> ThemingChecks(t, p)
      [] c = "responsive_design" -> ResponsiveChecks(t)
      [] c = "user_flows" -> UserFlowChecks(t)

\* variant: the theming validator takes material design's colour finding
\* for its own when that category has been evaluated
ValidatorSharing(c, r, t, p) ==
    LET checks == IF c = "theming" /\ r.material_design # EmptyDict
                  THEN [CategoryChecks(c, t, p) EXCEPT
                          !.consistent_colors = r.material_design.color_system]
                  ELSE CategoryChecks(c, t, p)
    IN  Record(r, c, checks, ScoreOf(c, checks))

\* self._validate_<category>(results)
Validator(c, r, t, p) ==
    LET checks == CategoryChecks(c, t, p) IN Record(r, c, checks, ScoreOf(c, checks))

\* the trees whose files are enumerated in catalogue order
SortedTrees == {t \in Trees : \A a, b \in 1..Len(t) : a < b => t[a] < t[b]}

InitOrder ==
    /\ tree \in SortedTrees
    /\ pubspec \in 1..Len(PubspecCatalog)
    /\ tool = "order"
    /\ pc = "validators"
    /\ run = 1
    /\ idx = 0
    /\ uxv = NewUxValidator
    /\ dartv = NewDartValidator
    /\ source = << >>
    /\ results = NewUxResults
    /\ first = EmptyDict
    /\ flips = 0

\* one of the validators not yet called is called
ValidateNext(c) ==
    /\ tool = "order" /\ pc = "validators"
    /\ results[c] = EmptyDict
    /\ results' = Validator(c, results, tree, pubspec)
    /\ idx' = idx + 1
    /\ UNCHANGED <<tree, pubspec, tool, pc, run, uxv, dartv, source, first, flips>>

\* all seven have been called: _calculate_ux_score, and results is returned
CalculateAfterAll ==
    /\ tool = "order" /\ pc = "validators"
    /\ idx = Len(Categories)
    /\ results' = [results EXCEPT !.summary = UxSummary(results, uxv.max_score)]
    /\ pc' = "returned"
    /\ UNCHANGED <<tree, pubspec, tool, run, idx, uxv, dartv, source, first, flips>>

NextOrder == (\E c \in CategorySet : ValidateNext(c)) \/ CalculateAfterAll

SpecOrder == InitOrder /\ [][NextOrder]_vars

----------------------------------------------------------------------------
(* _check_imports called on its own                                        *)

\* lines put together from a head, a path and a tail
ImportHeads == { <<"i","m","p","o","r","t"," ">>, <<"i","m","p","o","r","t"," "," ">>, <<" "," ","i","m","p","o","r","t"," ">>, <<"i","m","p","o","r","t">>, <<"i","m","p","o","r","t","\t">>,
                 <<"e","x","p","o","r","t"," ">>, <<"/","/"," ","i","m","p","o","r","t"," ">> }
ImportPaths == { <<"'","a",".","d","a","r","t","'">>, <<"\"","p","a","c","k","a","g","e",":","a","/","b","_","c",".","d","a","r","t","\"">>, <<"'","a","-","b",".","d","a","r","t","'">>, <<"a",".","d","a","r","t">>,
                 <<"'","'">>, <<"'","a",".","d","a","r","t","\"">>, <<"'","a",".","d","a","r","t">> }
ImportTails == { <<";">>, <<>>, <<" ","a","s"," ","x",";">>, <<";"," ","/","/"," ","c">>, <<" ",";">>, <<";"," "," ">> }

ImportLines == {h \o p \o t : h \in ImportHeads, p \in ImportPaths, t \in ImportTails}

\* the lines that follow or precede another one in a two-line text
ImportSampleLines ==
    { <<"i","m","p","o","r","t"," ","'","a",".","d","a","r","t","'",";">>, <<"i","m","p","o","r","t"," ","'","a",".","d","a","r","t","'">>, <<"i","m","p","o","r","t"," ","a",".","d","a","r","t">>, <<"c","l","a","s","s"," ","A"," ","{","}">>, <<>> }

ImportInputs ==
    ImportLines \cup {JoinLines(<<a, b>>) : a \in ImportSampleLines, b \in ImportSampleLines}

InitImports ==
    /\ tree = << >>
    /\ pubspec = 1
    /\ tool = "imports"
    /\ pc = "check"
    /\ run = 1
    /\ idx = 0
    /\ uxv = NewUxValidator
    /\ dartv = NewDartValidator
    /\ source \in ImportInputs
    /\ results = NewLintResults
    /\ first = EmptyDict
    /\ flips = 0

CheckImportsCall ==
    /\ tool = "imports" /\ pc = "check"
    /\ results' = CheckImports(SyntaxPath, source, results)
    /\ pc' = "checked"
    /\ UNCHANGED <<tree, pubspec, tool, run, idx, uxv, dartv, source, first, flips>>

SpecImports == InitImports /\ [][CheckImportsCall]_vars

----------------------------------------------------------------------------
(* _check_structure called on its own, and the summary of what it found    *)

\* the file names _check_structure is given
StructurePaths ==
    << <<"m","y","_","w","i","d","g","e","t",".","d","a","r","t">>, <<"h","o","m","e",".","d","a","r","t">>, <<"m","y","_","w","i","d","g","e","t","_","t","e","s","t",".","d","a","r","t">>, <<"h","t","t","p","_","c","l","i","e","n","t",".","d","a","r","t">>,
       <<"m","y","_","w","i","d","g","e","t",".","g",".","d","a","r","t">> >>

\* contents put together from a class part and a widget part
ClassParts ==
    { <<>>, <<"c","l","a","s","s"," ","M","y","W","i","d","g","e","t"," ">>, <<"c","l","a","s","s","\n"," "," ","M","y","W","i","d","g","e","t"," ">>, <<"a","b","s","t","r","a","c","t"," ","c","l","a","s","s"," ","H","o","m","e"," ">>,
      <<"c","l","a","s","s","M","y","W","i","d","g","e","t"," ">>, <<"c","l","a","s","s"," ","M","y","W","i","d","g","e","t"," ","{","}","\n","c","l","a","s","s"," ","H","o","m","e"," ">>, <<"c","l","a","s","s"," ","H","T","T","P","C","l","i","e","n","t"," ">>,
      <<"/","/"," ","s","u","b","c","l","a","s","s"," ","m","e","\n","m","i","x","i","n"," ","M","y","W","i","d","g","e","t"," ">>, <<"c","l","a","s","s"," ","m","y","_","w","i","d","g","e","t"," ">> }
WidgetParts ==
    { <<>>, <<"e","x","t","e","n","d","s"," ","S","t","a","t","e","l","e","s","s","W","i","d","g","e","t"," ","{","}">>,
      <<"e","x","t","e","n","d","s"," ","S","t","a","t","e","f","u","l","W","i","d","g","e","t"," ","{","\n"," "," ","W","i","d","g","e","t"," ","b","u","i","l","d","(","B","u","i","l","d","C","o","n","t","e","x","t"," ","c","o","n","t","e","x","t",")"," ","{","}","\n","}">>,
      <<"e","x","t","e","n","d","s"," ","S","t","a","t","e","l","e","s","s","W","i","d","g","e","t"," ","{","\n"," "," ","W","i","d","g","e","t"," ","b","u","i","l","d","(","B","u","i","l","d","C","o","n","t","e","x","t"," ","c","t","x",")"," ","{","}","\n","}">>,
      <<"e","x","t","e","n","d","s"," ","S","t","a","t","e","f","u","l","W","i","d","g","e","t"," ","{","}">>,
      <<"e","x","t","e","n","d","s"," "," ","S","t","a","t","e","l","e","s","s","W","i","d","g","e","t"," ","{","}">>,
      <<"{","\n"," "," ","W","i","d","g","e","t"," ","b","u","i","l","d","(","B","u","i","l","d","C","o","n","t","e","x","t"," ","c","o","n","t","e","x","t",")"," ","{","}","\n","}">> }

StructureInputs == {c \o w : c \in ClassParts, w \in WidgetParts}

InitStructure ==
    /\ tree = << >>
    /\ pubspec = 1
    /\ tool = "structure"
    /\ pc = "check"
    /\ run = 1
    /\ idx \in 1..Len(StructurePaths)
    /\ uxv = NewUxValidator
    /\ dartv = NewDartValidator
    /\ source \in StructureInputs
    /\ results = NewLintResults
    /\ first = EmptyDict
    /\ flips = 0

CheckStructureCall ==
    /\ tool = "structure" /\ pc = "check"
    /\ results' = CheckStructure(StructurePaths[idx], source, results)
    /\ pc' = "checked"
    /\ UNCHANGED <<tree, pubspec, tool, run, idx, uxv, dartv, source, first, flips>>

\* _generate_summary on what the check found
StructureSummary ==
    /\ tool = "structure" /\ pc = "checked"
    /\ results' = [results EXCEPT !.summary = LintSummary(results)]
    /\ pc' = "returned"
    /\ UNCHANGED <<tree, pubspec, tool, run, idx, uxv, dartv, source, first, flips>>

NextStructure == CheckStructureCall \/ StructureSummary

SpecStructure == InitStructure /\ [][NextStructure]_vars

----------------------------------------------------------------------------
(* _generate_final_verdict called on the summaries a run can produce       *)

MaxVerdictTests == 40    \* most tests counted in the unit suite

\* overall_coverage of a run, in tenths: between the lowest and the highest
\* percentage a category draws
CoverageTenths == 750..990

\* the exact overall score of a summary, over the denominator 100 * den
ExactScore(rate, coverage) ==
    Ratio(40 * rate.num + 3 * coverage.num * rate.den + 2600 * rate.den, 100 * rate.den)

\* results after the first two steps of a run whose only tests are unit
\* tests: total_tests of them, passed at the drawn rate.  Summaries whose
\* score lies halfway between two tenths are left out: there the rounding of
\* the binary float decides.
InitVerdict ==
    /\ tree = << >>
    /\ pubspec = 1
    /\ tool = "verdict"
    /\ pc = "final_verdict"
    /\ run = 1
    /\ idx = 0
    /\ uxv = NewUxValidator
    /\ dartv = NewDartValidator
    /\ source = << >>
    /\ \E total_tests \in 0..MaxVerdictTests, u \in UnitRates, c \in CoverageTenths :
          LET passed == Scaled(total_tests, u)
              rate == IF total_tests > 0 THEN Ratio(passed * 100, total_tests)
                      ELSE Ratio(0, 1)
              score == ExactScore(rate, Ratio(c, 10))
          IN  /\ (20 * score.num) % (2 * score.den) # score.den
              /\ results = [NewSimResults EXCEPT
                    !.test_execution =
                       [summary |-> [total_tests |-> total_tests,
                                     total_passed |-> passed,
                                     total_failed |-> total_tests - passed,
                                     success_rate |-> rate]],
                    !.coverage_analysis = [overall_coverage |-> Ratio(c, 10)]]
    /\ first = EmptyDict
    /\ flips = 0

\* results['final_verdict'] = self._generate_final_verdict(results)
VerdictCall ==
    /\ tool = "verdict" /\ pc = "final_verdict"
    /\ results' = [results EXCEPT !.final_verdict = GenerateFinalVerdict(results)]
    /\ pc' = "returned"
    /\ UNCHANGED <<tree, pubspec, tool, run, idx, uxv, dartv, source, first, flips>>

SpecVerdict == InitVerdict /\ [][VerdictCall]_vars

----------------------------------------------------------------------------
(* analyze_structure.py: main() over a project directory                  *)
(*                                                                         *)
(* A project is described by the state of its key files and by the other   *)
(* Dart files it holds.  The import lists analyze_imports builds are only  *)
(* printed and are left out.                                               *)

\* what lib/main.dart and lib/app.dart hold when they can be read
KeyFileText == JoinLines(<< <<"i","m","p","o","r","t"," ","'","p","a","c","k","a","g","e",":","f","l","u","t","t","e","r","/","m","a","t","e","r","i","a","l",".","d","a","r","t","'",";">>, <<"v","o","i","d"," ","m","a","i","n","(",")"," ","{","}">> >>)

\* the Dart files a project may hold besides lib/main.dart and lib/app.dart,
\* each with str(dart_file.parent)
OtherDartFiles ==
    { [name |-> <<"a","_","t","e","s","t",".","d","a","r","t">>, parent |-> "test"],
      [name |-> <<"b","_","t","e","s","t",".","d","a","r","t">>, parent |-> "test/unit"],
      [name |-> <<"x",".","d","a","r","t">>, parent |-> "lib/core"] }

Projects ==
    [main : {"absent", "readable", "unreadable"},
     app : {"absent", "readable"},
     yaml : {"absent", "valid", "invalid"},
     others : SUBSET OtherDartFiles]

\* analyze_pubspec: the keys main() reads
AnalyzePubspec(p) ==
    IF p.yaml = "absent" THEN [error |-> <<"p","u","b","s","p","e","c",".","y","a","m","l"," ","n","o","t"," ","f","o","u","n","d">>]
    ELSE IF p.yaml = "invalid" THEN [error |-> <<"c","o","u","l","d"," ","n","o","t"," ","p","a","r","s","e">>]
    ELSE [name |-> <<"a","p","p">>, version |-> <<"1",".","0",".","0">>]

\* analyze_file_structure: the directories that hold a Dart file, with the
\* number of Dart files in each
AnalyzeFileStructure(p) ==
    LET parents == {f.parent : f \in p.others}
                   \cup (IF p.main # "absent" \/ p.app # "absent" THEN {"lib"} ELSE {})
        in_lib == (IF p.main # "absent" THEN 1 ELSE 0) + (IF p.app # "absent" THEN 1 ELSE 0)
    IN  [total_dart_files |-> Cardinality(p.others) + in_lib,
         directories |->
            [d \in parents |->
                IF d = "lib" THEN in_lib
                ELSE Cardinality({f \in p.others : f.parent = d})]]

\* key_files of analyze_main_files, in the order of the dict
KeyFiles == <<"main.dart", "app.dart", "pubspec.yaml">>

KeyFileState(p, name) ==
    CASE name = "main.dart" -> p.main
      [] name = "app.dart" -> p.app
      [] name = "pubspec.yaml" -> p.yaml

\* what stands for an exception leaving a turn of the loop
Raises == [exception |-> TRUE]

\* one turn of the loop of analyze_main_files: the entry of a key file, or
\* Raises.  A Dart file that exists gets the dict of analyze_imports, then
\* is opened again outside any try (an unreadable one raises there); for
\* pubspec.yaml no entry has been created when analysis[name]['exists'] is
\* assigned, which raises KeyError.
KeyFileEntry(p, name) ==
    LET state == KeyFileState(p, name) IN
    IF state = "absent" THEN [exists |-> FALSE]
    ELSE IF name = "pubspec.yaml" THEN Raises
    ELSE IF state = "unreadable" THEN Raises
    ELSE [exists |-> TRUE, lines |-> Len(SplitLines(KeyFileText)),
          size |-> Len(KeyFileText)]

\* whether a turn of the loop of analyze_main_files raises
MainFilesRaise(p) ==
    \E k \in 1..Len(KeyFiles) : KeyFileEntry(p, KeyFiles[k]) = Raises

\* analyze_main_files when no turn raises: the analysis dict, in key order
AnalyzeMainFiles(p) == [k \in 1..Len(KeyFiles) |-> KeyFileEntry(p, KeyFiles[k])]

\* the four checks of the project assessment
Assessment(r) ==
    LET has_main == r.main_files[1].exists
        has_pubspec == "error" \notin DOMAIN r.pubspec_info
        has_tests == \E d \in DOMAIN r.structure.directories :
                        d \in {"test", "test/unit"}
        proper_structure == {"lib", "test"} \subseteq DOMAIN r.structure.directories
        score == (IF has_main THEN 1 ELSE 0) + (IF has_pubspec THEN 1 ELSE 0)
                 + (IF has_tests THEN 1 ELSE 0) + (IF proper_structure THEN 1 ELSE 0)
    IN  [score |-> score, total_checks |-> 4, percentage |-> (score * 100) \div 4]

InitAnalyze ==
    /\ tree \in Projects
    /\ pubspec = 1
    /\ tool = "analyze"
    /\ pc = "pubspec"
    /\ run = 1
    /\ idx = 0
    /\ uxv = NewUxValidator
    /\ dartv = NewDartValidator
    /\ source = << >>
    /\ results = [pubspec_info |-> EmptyDict, structure |-> EmptyDict,
                  main_files |-> EmptyDict, assessment |-> EmptyDict]
    /\ first = EmptyDict
    /\ flips = 0

AnalyzePubspecStep ==
    /\ tool = "analyze" /\ pc = "pubspec"
    /\ results' = [results EXCEPT !.pubspec_info = AnalyzePubspec(tree)]
    /\ pc' = "structure"
    /\ UNCHANGED <<tree, pubspec, tool, run, idx, uxv, dartv, source, first, flips>>

AnalyzeFileStructureStep ==
    /\ tool = "analyze" /\ pc = "structure"
    /\ results' = [results EXCEPT !.structure = AnalyzeFileStructure(tree)]
    /\ pc' = "main_files"
    /\ UNCHANGED <<tree, pubspec, tool, run, idx, uxv, dartv, source, first, flips>>

\* main_files = analyze_main_files(): nothing in main() catches what it raises
AnalyzeMainFilesStep ==
    /\ tool = "analyze" /\ pc = "main_files"
    /\ IF MainFilesRaise(tree)
       THEN /\ pc' = "raised"
            /\ UNCHANGED results
       ELSE /\ results' = [results EXCEPT !.main_files = AnalyzeMainFiles(tree)]
            /\ pc' = "assessment"
    /\ UNCHANGED <<tree, pubspec, tool, run, idx, uxv, dartv, source, first, flips>>

AssessmentStep ==
    /\ tool = "analyze" /\ pc = "assessment"
    /\ results' = [results EXCEPT !.assessment = Assessment(results)]
    /\ pc' = "done"
    /\ UNCHANGED <<tree, pubspec, tool, run, idx, uxv, dartv, source, first, flips>>

NextAnalyze ==
    \/ AnalyzePubspecStep
    \/ AnalyzeFileStructureStep
    \/ AnalyzeMainFilesStep
    \/ AssessmentStep

SpecAnalyze == InitAnalyze /\ [][NextAnalyze]_vars

----------------------------------------------------------------------------
(* Properties                                                              *)

\* the maximum of each category, as main() lists them for the breakdown
CategoryMaxPoints ==
    [material_design |-> 20, accessibility |-> 15, performance |-> 15,
     animations |-> 10, theming |-> 15, responsive_design |-> 10,
     user_flows |-> 15]

\* the per-category score main() prints:
\* sum(checks.values()) * (max_points // len(checks))
DisplayScore(checks, max_points) ==
    SumValues(checks) * (max_points \div Cardinality(DOMAIN checks))

OverallMaximum == 100

\* position of a category in the evaluation order
CategoryIndex(c) == CHOOSE i \in 1..Len(Categories) : Categories[i] = c

\* the categories a run has evaluated when it stands at pc
EvaluatedAt(p) ==
    IF p \in CategorySet THEN {Categories[i] : i \in 1..(CategoryIndex(p) - 1)}
    ELSE IF p \in {"calculate", "returned"} THEN CategorySet
    ELSE {}

RECURSIVE SumOver(_, _)
SumOver(f, S) ==
    IF S = {} THEN 0
    ELSE LET x == CHOOSE y \in S : TRUE IN f[x] + SumOver(f, S \ {x})

\* the points of every category of a results dict ({} counts for nothing)
PointsIn(r) ==
    [c \in CategorySet |->
        IF r[c] = EmptyDict THEN 0 ELSE DisplayScore(r[c], CategoryMaxPoints[c])]

UxReturned == tool = "ux" /\ pc = "returned"

\* C1: every category validator adds to results['ux_score'] a number of points
\* between 0 and the maximum of its category (20, 15, 15, 10, 15, 10, 15).
C1_CategoryBound ==
    [][(tool = "ux" /\ pc \in CategorySet) =>
          /\ results'.ux_score - results.ux_score >= 0
          /\ results'.ux_score - results.ux_score <= CategoryMaxPoints[pc]]_vars

\* a run in which material design has just added its full 20 points
C1_Witness ==
    /\ tool = "ux" /\ pc = "accessibility"
    /\ results.ux_score = CategoryMaxPoints.material_design

\* C2: at every point of a run the accumulated score is the sum of the points
\* of the categories evaluated so far and is at most 100; the final score is
\* the accumulated score unchanged by the clamp, the sum of the seven
\* category scores, whose maxima add up to exactly 100.
C2_RunningTotal ==
    /\ SumOver(CategoryMaxPoints, CategorySet) = OverallMaximum
    /\ (tool = "ux" /\ pc # "idle") =>
          /\ results.ux_score = SumOver(PointsIn(results), EvaluatedAt(pc))
          /\ \A c \in CategorySet \ EvaluatedAt(pc) : results[c] = EmptyDict
          /\ results.ux_score <= OverallMaximum
    /\ UxReturned =>
          /\ results.summary.final_score = results.ux_score
          /\ results.summary.final_score = SumOver(PointsIn(results), CategorySet)
          /\ results.summary.final_score <= OverallMaximum

\* a run that has collected the full points of the first four categories
C2_Witness ==
    /\ tool = "ux" /\ pc = "theming"
    /\ results.ux_score = 60

\* the table of the grader, highest threshold first
GradeTable ==
    << [min |-> 90, grade |-> "A+ (Industrial Grade)", status |-> "EXCELLENT"],
       [min |-> 80, grade |-> "A (Professional Grade)", status |-> "VERY GOOD"],
       [min |-> 70, grade |-> "B+ (Good Standard)", status |-> "GOOD"],
       [min |-> 60, grade |-> "B (Acceptable)", status |-> "NEEDS IMPROVEMENT"] >>

LowestGrade == [grade |-> "C (Below Standard)", status |-> "REQUIRES MAJOR WORK"]

\* the rows whose threshold a score out of OverallMaximum meets or exceeds
RowsMet(score) ==
    {i \in 1..Len(GradeTable) : score * 100 >= GradeTable[i].min * OverallMaximum}

\* C3: for every final score, the grade and status are those of the highest
\* threshold (90, 80, 70, 60) the percentage meets or exceeds, a score exactly
\* on a threshold getting that threshold's grade, and 'C (Below Standard)'
\* when no threshold is met.
C3_GradeByThreshold ==
    (tool = "grade" /\ pc = "returned") =>
        LET s == results.summary
            met == RowsMet(s.final_score)
            top == CHOOSE i \in met : \A j \in met : GradeTable[i].min >= GradeTable[j].min
        IN  /\ s.final_score = Min(results.ux_score, OverallMaximum)
            /\ s.percentage = s.final_score
            /\ IF met = {}
               THEN s.grade = LowestGrade.grade /\ s.status = LowestGrade.status
               ELSE s.grade = GradeTable[top].grade /\ s.status = GradeTable[top].status

\* a score exactly on the top threshold, graded A+
C3_Witness ==
    /\ tool = "grade" /\ pc = "returned"
    /\ results.summary.final_score = 90
    /\ results.summary.grade = "A+ (Industrial Grade)"

\* C4: over an unchanged project tree a second run of validate_complete_ux,
\* and a second run of validate_project, returns exactly what the first run
\* returned: rule outcomes, scores, grade, recommendations and issue lists.
C4_Determinism ==
    (tool \in {"ux", "lint"} /\ pc = "returned" /\ run >= 2) => results = first

\* a second scoring run that has returned a score and recommendations
C4_Witness ==
    /\ tool = "ux" /\ pc = "returned" /\ run = 2
    /\ results.summary.final_score > 0
    /\ results.summary.recommendations # << >>

\* the grades from the lowest to the highest
GradeRank(grade) ==
    CASE grade = "C (Below Standard)" -> 0
      [] grade = "B (Acceptable)" -> 1
      [] grade = "B+ (Good Standard)" -> 2
      [] grade = "A (Professional Grade)" -> 3
      [] grade = "A+ (Industrial Grade)" -> 4

\* C5: switching one rule from unsatisfied to satisfied, the others unchanged,
\* lowers no category's score, nor the final score, nor the grade (and adds to
\* the score of the rule's own category).
C5_Monotonic ==
    [][tool = "rules" =>
          /\ \A c \in CategorySet :
                ScoreOf(c, results'[c]) >= ScoreOf(c, results[c])
          /\ \A c \in CategorySet :
                results'[c] # results[c] =>
                    ScoreOf(c, results'[c]) > ScoreOf(c, results[c])
          /\ results'.summary.final_score >= results.summary.final_score
          /\ GradeRank(results'.summary.grade) >= GradeRank(results.summary.grade)]_vars

\* two rules switched on have taken a project from 85 to 91 points, across the
\* top threshold
C5_Witness ==
    /\ tool = "rules" /\ flips = 2
    /\ results.summary.final_score = 91
    /\ results.summary.grade = "A+ (Industrial Grade)"

\* the tree without its i-th file
RemoveAt(t, i) == SubSeq(t, 1, i - 1) \o SubSeq(t, i + 1, Len(t))

\* C6: a tree with an unreadable file yields the category scores of the same
\* tree without that file, whatever the file's name, and the report holds one
\* more warning (the report of the tree without the file holds none).
C6_Resilience ==
    UxReturned =>
        \A i \in 1..Len(tree) :
            ~File(tree[i]).readable =>
                /\ \A c \in CategorySet :
                      PointsIn(results)[c] =
                          DisplayScore(ChecksOf(RemoveAt(tree, i), pubspec)[c],
                                       CategoryMaxPoints[c])
                /\ Len(results.validations) = 1

\* C7 as stated: with fewer than 3 premium_*.dart files component_usage is
\* false, with no pubspec.yaml custom_fonts is false, and with no Dart files
\* every rule is false, the final score 0 and the grade the lowest.
C7_AsStated ==
    UxReturned =>
        /\ Len(Rglob(tree, <<"p","r","e","m","i","u","m","_","*",".","d","a","r","t">>)) < 3 =>
              ~results.material_design.component_usage
        /\ ~PubspecCatalog[pubspec].exists => ~results.theming.custom_fonts
        /\ Rglob(tree, <<"*",".","d","a","r","t">>) = << >> =>
              /\ \A c \in CategorySet : \A k \in Rules[c] : ~results[c][k]
              /\ results.summary.final_score = 0
              /\ results.summary.grade = LowestGrade.grade

\* C7, amended: with fewer than 3 premium_*.dart files component_usage is
\* false, with no pubspec.yaml custom_fonts is false, and with no Dart files
\* every rule but custom_fonts is false, the final score is 0, or 3 when
\* pubspec.yaml declares fonts, and the grade is the lowest.
C7_MissingInputs ==
    UxReturned =>
        /\ Len(Rglob(tree, <<"p","r","e","m","i","u","m","_","*",".","d","a","r","t">>)) < 3 =>
              ~results.material_design.component_usage
        /\ ~PubspecCatalog[pubspec].exists => ~results.theming.custom_fonts
        /\ Rglob(tree, <<"*",".","d","a","r","t">>) = << >> =>
              /\ \A c \in CategorySet : \A k \in Rules[c] \ {"custom_fonts"} :
                    ~results[c][k]
              /\ results.summary.final_score =
                    (IF results.theming.custom_fonts THEN 3 ELSE 0)
              /\ results.summary.grade = LowestGrade.grade

\* a project with no Dart file whose pubspec.yaml declares fonts
C7_Witness ==
    /\ UxReturned
    /\ tree = << >>
    /\ results.theming.custom_fonts
    /\ results.summary.final_score = 3

AllSatisfied(r) == \A c \in CategorySet : \A k \in Rules[c] : r[c][k]

\* C8: when every rule of every category is satisfied the final score is the
\* overall maximum 100, the percentage 100 and the grade the top threshold's.
C8_AllSatisfied ==
    (UxReturned /\ AllSatisfied(results)) =>
        /\ results.summary.final_score = OverallMaximum
        /\ results.summary.percentage = 100
        /\ results.summary.grade = GradeTable[1].grade

\* a run over a tree that satisfies all 35 rules
C8_Witness == UxReturned /\ AllSatisfied(results)

\* the last character of a non-empty line
Last(line) == line[Len(line)]

\* a word character, optional blanks, '=', and a non-empty rest of the line
\* that holds neither ';' nor '{'
AssignmentShaped(line) ==
    \E e \in 1..Len(line) :
        LET lhs == SubSeq(line, 1, e - 1)
            rhs == SubSeq(line, e + 1, Len(line))
            word == {k \in 1..Len(lhs) : ~IsSpace(lhs[k])}
        IN  /\ line[e] = "="
            /\ word # {}
            /\ IsWord(lhs[CHOOSE a \in word : \A b \in word : b <= a])
            /\ rhs # << >>
            /\ Range(rhs) \cap {";", "{"} = {}

\* how many 'Missing semicolon' issues the results attribute to line i
SemicolonIssues(r, i) ==
    Cardinality({k \in 1..Len(r.syntax_errors) :
                    /\ r.syntax_errors[k].line = i
                    /\ StartsWith(r.syntax_errors[k].error, <<"M","i","s","s","i","n","g"," ","s","e","m","i","c","o","l","o","n">>)})

\* C10: a line that is neither blank nor a comment, is assignment-shaped, ends
\* in no terminator and not in ',' and contains none of if, for, while, switch,
\* try, => gets exactly one 'Missing semicolon' issue with its line number; a
\* line that ends in ';' or '}' gets none.
C10_StatementTermination ==
    (tool = "syntax" /\ pc = "checked") =>
        \A i \in 1..Len(SplitLines(source)) :
            LET line == Strip(SplitLines(source)[i]) IN
            line # << >> =>
                /\ ( /\ ~StartsWith(line, <<"/","/">>)
                     /\ AssignmentShaped(line)
                     /\ Last(line) \notin {";", "}", ","}
                     /\ \A kw \in { <<"i","f">>, <<"f","o","r">>, <<"w","h","i","l","e">>, <<"s","w","i","t","c","h">>,
                                    <<"t","r","y">>, <<"=",">">> } : ~In(kw, line) )
                   => SemicolonIssues(results, i) = 1
                /\ Last(line) \in {";", "}"} => SemicolonIssues(results, i) = 0

\* the unterminated assignment 'x = compute()' on line 2, reported once
C10_Witness ==
    /\ tool = "syntax" /\ pc = "checked"
    /\ source = JoinLines(<< <<>>, <<"x"," ","="," ","c","o","m","p","u","t","e","(",")">> >>)
    /\ results.syntax_errors = <<SemicolonIssue(SyntaxPath, 2, <<"x"," ","="," ","c","o","m","p","u","t","e","(",")">>)>>

\* the rules of a checks dict that are satisfied
Satisfied(checks) == {k \in DOMAIN checks : checks[k]}

\* C11: for every category and every outcome of its rules, the points the
\* validator adds are exactly maxPoints x satisfied / total, nothing lost to
\* integer division, and are the score main() recomputes for display,
\* satisfied x (max_points // number of checks).
C11_ExactFraction ==
    tool = "scored" =>
        LET checks == results[pc] IN
        /\ results.ux_score * Cardinality(DOMAIN checks) =
              CategoryMaxPoints[pc] * Cardinality(Satisfied(checks))
        /\ results.ux_score = DisplayScore(checks, CategoryMaxPoints[pc])

\* three of the five theming rules satisfied: 9 of 15 points
C11_Witness ==
    /\ tool = "scored" /\ pc = "theming"
    /\ Cardinality(Satisfied(results.theming)) = 3
    /\ results.ux_score = 9

\* the remediation strings in the order _generate_recommendations declares them
Remediations ==
    << [category |-> "material_design", rule |-> "theme_implementation",
        text |-> "Implement comprehensive Material Design 3 theme"],
       [category |-> "material_design", rule |-> "component_usage",
        text |-> "Create more premium UI components"],
       [category |-> "accessibility", rule |-> "semantic_labels",
        text |-> "Add semantic labels for screen readers"],
       [category |-> "accessibility", rule |-> "focus_management",
        text |-> "Implement proper focus management"],
       [category |-> "performance", rule |-> "image_caching",
        text |-> "Implement advanced image caching system"],
       [category |-> "performance", rule |-> "lazy_loading",
        text |-> "Add lazy loading for better performance"] >>

\* the remediation strings of the unsatisfied rules of r, in declared order
DueRemediations(r) ==
    LET due == SelectSeq(Remediations, LAMBDA m : ~r[m.category][m.rule])
    IN  [i \in 1..Len(due) |-> due[i].text]

\* C12: the recommendation list has at most 5 entries and is the first (up to)
\* five remediation strings of the unsatisfied rules in declared order
\* (material design, accessibility, performance); it depends on the set of
\* unsatisfied rules only.
C12_Recommendations ==
    tool = "rules" =>
        LET recs == results.summary.recommendations
            due == DueRemediations(results)
        IN  /\ Len(recs) <= 5
            /\ Len(recs) = Min(Len(due), 5)
            /\ \A i \in 1..Len(recs) : recs[i] = due[i]

\* six remediation strings are due and the sixth is cut off
C12_Witness ==
    /\ tool = "rules"
    /\ Len(DueRemediations(results)) = 6
    /\ Len(results.summary.recommendations) = 5
    /\ results.summary.recommendations[5] = "Implement advanced image caching system"

\* the unsatisfied rules of all seven categories, as (category, rule) pairs
Unsatisfied(r) == {<<c, k>> \in CategorySet \X UNION {Rules[c] : c \in CategorySet} :
                      k \in Rules[c] /\ ~r[c][k]}

\* C13: every unsatisfied rule, in each of the seven categories, has a
\* remediation string: the list is non-empty whenever the final score is
\* below 100, and holds one entry per unsatisfied rule when at most 5 rules
\* are unsatisfied.
C13_EveryRuleRemedied ==
    UxReturned =>
        LET recs == results.summary.recommendations IN
        /\ results.summary.final_score < 100 => recs # << >>
        /\ Cardinality(Unsatisfied(results)) <= 5 =>
              Len(recs) = Cardinality(Unsatisfied(results))

\* the issue and warning lists of a linter results dict
IssueLists == {"syntax_errors", "import_errors", "structure_issues", "warnings"}

\* what the linter reports about one file taken alone
AloneLint(f) == ValidateDartFile(f, NewLintResults)

\* C14: unreadable files never fail the run.  No call stops on an exception:
\* until it has returned, a call stands at one of its own steps.  The linter
\* has counted one file per iteration and, once returned, reports all files
\* and everything every readable file gives rise to; the scoring engine, once
\* returned, has a summary in which every rule a readable file satisfies on
\* its own is satisfied.
C14_RunCompletes ==
    /\ pc # "raised"
    /\ tool = "ux" => pc \in CategorySet \cup {"calculate", "returned"}
    /\ tool = "lint" => pc \in {"files", "returned"} /\ idx <= Len(tree)
    /\ tool = "lint" => results.files_checked = (IF pc = "files" THEN idx ELSE Len(tree))
    /\ (tool = "lint" /\ pc = "returned") =>
          /\ results.summary.total_files = Len(tree)
          /\ results.summary.status \in {"PASS", "ISSUES_FOUND"}
          /\ \A i \in 1..Len(tree) : File(tree[i]).readable =>
                LET alone == AloneLint(File(tree[i])) IN
                \A l \in IssueLists : Range(alone[l]) \subseteq Range(results[l])
    /\ UxReturned =>
          /\ results.summary # EmptyDict
          /\ results.summary.grade \in
                {GradeTable[i].grade : i \in 1..Len(GradeTable)} \cup {LowestGrade.grade}
          /\ \A i \in 1..Len(tree) : File(tree[i]).readable =>
                LET alone == ChecksOf(<<tree[i]>>, 1) IN
                \A c \in CategorySet : \A k \in Rules[c] :
                    alone[c][k] => results[c][k]

\* the linter has returned over a tree in which a readable file with issues
\* follows the unreadable one
C14_Witness ==
    /\ tool = "lint" /\ pc = "returned"
    /\ \E i \in 1..(Len(tree) - 1) :
          /\ ~File(tree[i]).readable
          /\ File(tree[i + 1]).readable
          /\ AloneLint(File(tree[i + 1])).import_errors # << >>
    /\ results.summary.total_files = Len(tree)

\* the loop of validate_project over the files of a tree
RECURSIVE LintFiles(_, _)
LintFiles(t, r) ==
    IF t = << >> THEN r
    ELSE LintFiles(Tail(t), [ValidateDartFile(File(Head(t)), r)
                               EXCEPT !.files_checked = @ + 1])

\* what validate_project returns for a tree
LintOf(t) ==
    LET r == LintFiles(Rglob(t, <<"*",".","d","a","r","t">>), NewLintResults)
    IN  [r EXCEPT !.summary = LintSummary(r)]

ErrorLists == {"syntax_errors", "import_errors", "structure_issues"}

\* C15: in the linter a file that cannot be read is recorded as a warning and
\* not as an error-kind issue: against the same tree without the file the
\* report has one more warning, the same syntax, import and structure issues,
\* the same total_issues and the same status.
C15_UnreadableIsWarning ==
    (tool = "lint" /\ pc = "returned") =>
        \A i \in 1..Len(tree) :
            ~File(tree[i]).readable =>
                LET without == LintOf(RemoveAt(tree, i)) IN
                /\ Len(results.warnings) = Len(without.warnings) + 1
                /\ \A l \in ErrorLists : results[l] = without[l]
                /\ results.summary.total_issues = without.summary.total_issues
                /\ results.summary.status = without.summary.status

\* the rules decided by file names alone: the pattern and how many files it needs
FilenameRules ==
    { [category |-> "material_design", rule |-> "theme_implementation",
       pattern |-> <<"*","t","h","e","m","e","*",".","d","a","r","t">>, needed |-> 1],
      [category |-> "material_design", rule |-> "color_system",
       pattern |-> <<"*","c","o","l","o","r","*",".","d","a","r","t">>, needed |-> 1],
      [category |-> "material_design", rule |-> "typography",
       pattern |-> <<"*","t","y","p","o","g","r","a","p","h","y","*",".","d","a","r","t">>, needed |-> 1],
      [category |-> "material_design", rule |-> "component_usage",
       pattern |-> <<"p","r","e","m","i","u","m","_","*",".","d","a","r","t">>, needed |-> 3],
      [category |-> "performance", rule |-> "image_caching",
       pattern |-> <<"*","c","a","c","h","e","*",".","d","a","r","t">>, needed |-> 1],
      [category |-> "performance", rule |-> "performance_monitoring",
       pattern |-> <<"*","p","e","r","f","o","r","m","a","n","c","e","*",".","d","a","r","t">>, needed |-> 1],
      [category |-> "user_flows", rule |-> "authentication_flow",
       pattern |-> <<"*","a","u","t","h","*",".","d","a","r","t">>, needed |-> 1] }

\* the positions of the tree whose file name matches the pattern
Named(t, pattern) == {i \in 1..Len(t) : GlobMatch(pattern, File(t[i]).name)}

\* C16: a file that cannot be read neither satisfies nor refutes a content
\* rule: every rule that is not a filename rule has the outcome it has on the
\* tree without the file.  The filename rules count it: each is satisfied
\* exactly when enough files of the tree, readable or not, bear a matching name.
C16_UnreadableCounted ==
    UxReturned =>
        /\ \A i \in 1..Len(tree) :
              ~File(tree[i]).readable =>
                  LET without == ChecksOf(RemoveAt(tree, i), pubspec) IN
                  \A c \in CategorySet : \A k \in Rules[c] :
                      (\A m \in FilenameRules : m.rule # k) =>
                          results[c][k] = without[c][k]
        /\ \A m \in FilenameRules :
              results[m.category][m.rule] =
                  (Cardinality(Named(tree, m.pattern)) >= m.needed)

\* two readable premium components and an unreadable third: component_usage
\* and authentication_flow hold through the unreadable file's name alone
C16_Witness ==
    /\ UxReturned
    /\ \E i \in 1..Len(tree) :
          /\ ~File(tree[i]).readable
          /\ i \in Named(tree, <<"*","a","u","t","h","*",".","d","a","r","t">>)
          /\ Named(tree, <<"*","a","u","t","h","*",".","d","a","r","t">>) = {i}
          /\ Cardinality(Named(tree, <<"p","r","e","m","i","u","m","_","*",".","d","a","r","t">>)) = 3
    /\ results.user_flows.authentication_flow
    /\ results.material_design.component_usage
    /\ results.accessibility.semantic_labels

\* C18: a division by the size of a file set treats size zero as zero and
\* raises nothing: no step of the simulator ends in an arithmetic error,
\* whether or not a Dart file lies under lib/, and the success rate is 0 when
\* no test was run.
C18_ZeroSizeIsZero ==
    tool = "sim" =>
        /\ pc # "raised"
        /\ (pc # "test_execution"
              /\ results.test_execution.summary.total_tests = 0) =>
                 results.test_execution.summary.success_rate.num = 0

\* C17: the linter's entry point exits with 0 exactly when the syntax, import
\* and structure issue lists are all empty, whatever the warnings; the scoring
\* engine's entry point exits with 0 exactly when the percentage is at least
\* 90, which is exactly when the grade is 'A+ (Industrial Grade)'.
C17_ExitSignal ==
    /\ (tool = "lint" /\ pc = "returned") =>
          (LintExit(results) = 0 <=> \A l \in ErrorLists : results[l] = << >>)
    /\ UxReturned =>
          /\ UxExit(results) = 0 <=> results.summary.percentage >= 90
          /\ UxExit(results) = 0 <=> results.summary.grade = GradeTable[1].grade

\* the linter has returned warnings and no issue: exit 0
C17_Witness ==
    /\ tool = "lint" /\ pc = "returned"
    /\ results.warnings # << >>
    /\ \A l \in ErrorLists : results[l] = << >>
    /\ LintExit(results) = 0

\* the categories whose validator has been called
Evaluated(r) == {c \in CategorySet : r[c] # EmptyDict}

\* C19: the order in which the seven validators are called does not matter.
\* Whatever the order, each category called so far holds the rule outcomes it
\* holds in the declared order and the running total is the sum of those
\* categories' scores, so no validator reads or changes another's entries;
\* after _calculate_ux_score the results, with final score, grade and
\* recommendations, are those of the declared order.
C19_OrderIndependent ==
    tool = "order" =>
        /\ \A c \in Evaluated(results) : results[c] = CategoryChecks(c, tree, pubspec)
        /\ results.ux_score =
              SumOver([c \in Evaluated(results) |-> ScoreOf(c, results[c])], Evaluated(results))
        /\ pc = "returned" =>
              results = Evaluate(NewUxResults, ChecksOf(tree, pubspec), 1, uxv.max_score)

\* the validators of user flows and theming have been called before any of
\* the five declared ahead of them, and both awarded points
C19_Witness ==
    /\ tool = "order" /\ pc = "validators"
    /\ Evaluated(results) = {"user_flows", "theming"}
    /\ ScoreOf("user_flows", results.user_flows) > 0
    /\ ScoreOf("theming", results.theming) > 0

\* the rules decided by what the Dart files contain: every rule but the ones
\* decided by file names and the one decided by pubspec.yaml
ContentRules ==
    {ck \in UNION {{<<c, k>> : k \in Rules[c]} : c \in CategorySet} :
        /\ \A fr \in FilenameRules : <<fr.category, fr.rule>> # ck
        /\ ck # <<"theming", "custom_fonts">>}

\* the files of a tree enumerated in catalogue order
CatalogueOrder(t) ==
    CHOOSE s \in [1..Len(t) -> {t[i] : i \in 1..Len(t)}] :
        \A a, b \in 1..Len(t) : a < b => s[a] < s[b]

\* C20: a rule decided by file contents is satisfied exactly when some readable
\* file, taken alone, satisfies it (for color_contrast a file matching
\* '*theme*.dart'), the elevation scan that stops at its first match included;
\* so the outcomes are those of the same files enumerated in any other order.
C20_CorpusWide ==
    UxReturned =>
        LET met == UNION {LET alone == ChecksOf(<<tree[i]>>, pubspec)
                          IN  {ck \in ContentRules : alone[ck[1]][ck[2]]} :
                          i \in {j \in 1..Len(tree) : File(tree[j]).readable}}
            ordered == ChecksOf(CatalogueOrder(tree), pubspec)
        IN  /\ \A ck \in ContentRules : results[ck[1]][ck[2]] = (ck \in met)
            /\ \A c \in CategorySet : results[c] = ordered[c]

\* two readable files enumerated against catalogue order; the first does not
\* satisfy the elevation rule or the semantic-label rule alone, the second does
C20_Witness ==
    /\ UxReturned
    /\ Len(tree) >= 2
    /\ tree[1] > tree[2]
    /\ File(tree[1]).readable /\ File(tree[2]).readable
    /\ \E ck \in ContentRules :
          /\ results[ck[1]][ck[2]]
          /\ ~ChecksOf(<<tree[1]>>, pubspec)[ck[1]][ck[2]]
          /\ ChecksOf(<<tree[2]>>, pubspec)[ck[1]][ck[2]]
    /\ results.material_design.elevation_shadows
    /\ ~ChecksOf(<<tree[1]>>, pubspec).material_design.elevation_shadows

\* how many 'Potential brace mismatch' issues the results attribute to line i
BraceIssues(r, i) ==
    Cardinality({k \in 1..Len(r.syntax_errors) :
                    /\ r.syntax_errors[k].line = i
                    /\ StartsWith(r.syntax_errors[k].error, <<"P","o","t","e","n","t","i","a","l"," ","b","r","a","c","e"," ","m","i","s","m","a","t","c","h">>)})

\* the number of '{' on a line less the number of '}', counted on that line alone
BraceDifference(line) ==
    Cardinality({k \in 1..Len(line) : line[k] = "{"})
    - Cardinality({k \in 1..Len(line) : line[k] = "}"})

\* C21: a line that is neither blank nor a comment gets one 'Potential brace
\* mismatch' issue with its line number exactly when its counts of '{' and '}'
\* differ by more than 1; a difference of 0 or 1, a blank line and a comment
\* line get none, whatever the other lines hold.
C21_BraceHeuristic ==
    (tool = "syntax" /\ pc = "checked") =>
        \A i \in 1..Len(SplitLines(source)) :
            LET line == Strip(SplitLines(source)[i])
                d == BraceDifference(line)
            IN  BraceIssues(results, i) =
                    IF line # << >> /\ ~StartsWith(line, <<"/","/">>) /\ (d > 1 \/ d < -1)
                    THEN 1 ELSE 0

\* '{{' on line 1 is reported and the single '{' on line 2 is not
C21_Witness ==
    /\ tool = "syntax" /\ pc = "checked"
    /\ source = <<"{", "{", "\n", "{">>
    /\ BraceIssues(results, 1) = 1
    /\ BraceIssues(results, 2) = 0

\* how many issues the import list attributes to line i
ImportIssues(r, i) ==
    Cardinality({k \in 1..Len(r.import_errors) : r.import_errors[k].line = i})

\* the quoted-path grammar: 'import', whitespace, a quote, one or more of
\* letters, digits, '_', '/', ':' and '.', a quote; what follows is free
QuotedPathShaped(line) ==
    \E q, p \in 1..Len(line) :
        /\ SubSeq(line, 1, 6) = <<"i","m","p","o","r","t">>
        /\ q > 7 /\ \A k \in 7..(q - 1) : line[k] \in {" ", "\t", "\n", "\r", "\f"}
        /\ line[q] \in {"'", "\""}
        /\ p > q + 1
        /\ \A k \in (q + 1)..(p - 1) :
              \/ line[k] \in {"_", "/", ":", "."}
              \/ \E a \in 1..26 : line[k] \in {UpperLetters[a], LowerLetters[a]}
              \/ \E a \in 1..10 : line[k] = Digits[a]
        /\ line[p] \in {"'", "\""}

\* C22: a trimmed line that starts with 'import ' gets one import issue if it
\* does not match the quoted-path grammar and one more if it does not end in
\* ';': none when it matches and is terminated, exactly one when it matches and
\* is not; a line that does not start with 'import ' gets none, and every
\* import issue belongs to a line of the text.
C22_ImportShape ==
    (tool = "imports" /\ pc = "checked") =>
        LET lines == SplitLines(source) IN
        /\ \A i \in 1..Len(lines) :
              LET line == Strip(lines[i]) IN
              ImportIssues(results, i) =
                 IF Len(line) >= 7 /\ SubSeq(line, 1, 7) = <<"i","m","p","o","r","t"," ">>
                 THEN (IF QuotedPathShaped(line) THEN 0 ELSE 1)
                      + (IF Last(line) = ";" THEN 0 ELSE 1)
                 ELSE 0
        /\ \A k \in 1..Len(results.import_errors) :
              results.import_errors[k].line \in 1..Len(lines)

\* an import with a well-formed path, an 'as' clause and its terminator: no issue
C22_Witness ==
    /\ tool = "imports" /\ pc = "checked"
    /\ source = <<"i","m","p","o","r","t"," ","'","a",".","d","a","r","t","'"," ","a","s"," ","x",";">>
    /\ results.import_errors = << >>

\* an import with a well-formed path and no terminator: one issue, on its line
C22_WitnessUnterminated ==
    /\ tool = "imports" /\ pc = "checked"
    /\ source = JoinLines(<< <<"c","l","a","s","s"," ","A"," ","{","}">>, <<"i","m","p","o","r","t"," ","'","a",".","d","a","r","t","'">> >>)
    /\ Len(results.import_errors) = 1
    /\ results.import_errors[1].line = 2

\* the base name of a file: its name up to the last '.'
BaseName(name) ==
    SubSeq(name, 1, (CHOOSE a \in 1..Len(name) :
                        name[a] = "." /\ \A b \in (a + 1)..Len(name) : name[b] # ".") - 1)

C24_StructuralCompleteness ==
    (tool = "structure" /\ pc \in {"checked", "returned"}) =>
        LET Holds(text) == \E k \in 1..(Len(source) - Len(text) + 1) :
                               SubSeq(source, k, k + Len(text) - 1) = text
            due == /\ Holds(<<"e","x","t","e","n","d","s"," ","S","t","a","t","e","l","e","s","s","W","i","d","g","e","t">>) \/ Holds(<<"e","x","t","e","n","d","s"," ","S","t","a","t","e","f","u","l","W","i","d","g","e","t">>)
                   /\ ~Holds(<<"W","i","d","g","e","t"," ","b","u","i","l","d","(","B","u","i","l","d","C","o","n","t","e","x","t"," ","c","o","n","t","e","x","t",")">>)
        IN  /\ Len(results.structure_issues) = IF due THEN 1 ELSE 0
            /\ pc = "returned" =>
                  /\ results.summary.structure_issues = IF due THEN 1 ELSE 0
                  /\ results.summary.total_issues = IF due THEN 1 ELSE 0
                  /\ results.summary.status = IF due THEN "ISSUES_FOUND" ELSE "PASS"

\* a stateful widget without the build signature: one issue, ISSUES_FOUND
C24_Witness ==
    /\ tool = "structure" /\ pc = "returned"
    /\ source = <<"c","l","a","s","s"," ","M","y","W","i","d","g","e","t"," ","e","x","t","e","n","d","s"," ","S","t","a","t","e","f","u","l","W","i","d","g","e","t"," ","{","}">>
    /\ Len(results.structure_issues) = 1
    /\ results.summary.total_issues = 1
    /\ results.summary.status = "ISSUES_FOUND"

\* the draws of the coverage percentages, one for each category
CoverageDraws ==
    {pct \in [CoverageCategories -> UNION {CoverageRange[c] : c \in CoverageCategories}] :
        \A c \in CoverageCategories : pct[c] \in CoverageRange[c]}

\* the verdict of a run over tree t that draws the rates u, w, i and the
\* coverage percentages pct
VerdictFor(t, u, w, i, pct) ==
    GenerateFinalVerdict(
        [NewSimResults EXCEPT
           !.test_execution = SimulateTestExecution(t, u, w, i),
           !.coverage_analysis = SimulateCoverageAnalysis(t, pct)])

\* C25: the overall_score and the grade a run returns are those of every other
\* run over the same tree, whatever pass rates and coverage percentages the
\* other run draws.
C25_VerdictOfCorpusAlone ==
    (tool = "sim" /\ pc = "returned") =>
        \A u \in UnitRates, w \in WidgetRates, i \in IntegrationRates, pct \in CoverageDraws :
            LET other == VerdictFor(tree, u, w, i, pct) IN
            /\ other.overall_score = results.final_verdict.overall_score
            /\ other.grade = results.final_verdict.grade

\* C29: the simulator's entry point reports success (overall_score, rounded to
\* one decimal, at least 90) exactly when _generate_final_verdict assigned the
\* grade 'A+ (Production Ready)'.
C29_SuccessIsTopGrade ==
    (tool = "verdict" /\ pc = "returned") =>
        (SimExit(results) = 0 <=> results.final_verdict.grade = "A+ (Production Ready)")

\* C26: no call changes a field of the validator instance (ux_score stays 0,
\* max_score 100, validations, errors and warnings empty, files_checked 0);
\* every call, the first and any later one on the same instance, starts from
\* a results structure with no score and no entry; and a later call over the
\* unchanged tree returns what the first returned.
C26_NoSharedState ==
    tool \in {"none", "ux", "lint"} =>
        /\ uxv.ux_score = 0 /\ uxv.max_score = 100 /\ uxv.validations = << >>
        /\ dartv.errors = << >> /\ dartv.warnings = << >> /\ dartv.files_checked = 0
        /\ (tool = "ux" /\ pc = "material_design") =>
              /\ results.ux_score = 0
              /\ results.validations = << >>
              /\ \A c \in CategorySet \cup {"summary"} : results[c] = EmptyDict
        /\ (tool = "lint" /\ pc = "files" /\ idx = 0) =>
              /\ results.files_checked = 0
              /\ \A l \in IssueLists : results[l] = << >>
              /\ results.summary = EmptyDict
        /\ (pc = "returned" /\ run >= 2) =>
              /\ first # EmptyDict
              /\ results = first

\* a second call of validate_project on the same instance has returned the
\* issues and warnings of the first, and the instance holds none of them
C26_Witness ==
    /\ tool = "lint" /\ pc = "returned" /\ run = 2
    /\ results.summary.total_issues > 0
    /\ results.summary.total_warnings > 0
    /\ results = first
    /\ dartv = [errors |-> << >>, warnings |-> << >>, files_checked |-> 0]

\* a second call of validate_complete_ux has begun after a first one that
\* scored: its results hold no score
C26_WitnessUx ==
    /\ tool = "ux" /\ pc = "material_design" /\ run = 2
    /\ first.ux_score > 0
    /\ results.ux_score = 0
    /\ uxv.ux_score = 0

\* C27: when validate_project has returned, total_issues is the number of
\* syntax errors plus import errors plus structure issues, total_warnings the
\* number of warnings, the status is 'PASS' exactly when total_issues is 0 and
\* 'ISSUES_FOUND' otherwise, and total_files is the number of Dart files of
\* the tree, those that cannot be read included.
C27_SummaryInvariant ==
    (tool = "lint" /\ pc = "returned") =>
        LET s == results.summary IN
        /\ s.total_issues = Len(results.syntax_errors) + Len(results.import_errors)
                               + Len(results.structure_issues)
        /\ s.total_warnings = Len(results.warnings)
        /\ s.status = IF s.total_issues = 0 THEN "PASS" ELSE "ISSUES_FOUND"
        /\ s.total_files =
              Cardinality({i \in 1..Len(tree) :
                  LET name == File(tree[i]).name IN
                  Len(name) >= 5 /\ SubSeq(name, Len(name) - 4, Len(name)) = <<".","d","a","r","t">>})

\* a tree of three files, one of them unreadable: three files counted, issues
\* and warnings both reported
C27_Witness ==
    /\ tool = "lint" /\ pc = "returned"
    /\ Len(tree) = 3
    /\ \E i \in 1..3 : ~File(tree[i]).readable
    /\ results.summary.total_files = 3
    /\ results.summary.total_warnings > 0
    /\ results.summary.total_issues > results.summary.syntax_errors
    /\ results.summary.status = "ISSUES_FOUND"

\* a tree whose files raise no issue: PASS, with warnings
C27_WitnessPass ==
    /\ tool = "lint" /\ pc = "returned"
    /\ tree # << >>
    /\ results.summary.total_warnings > 0
    /\ results.summary.status = "PASS"

\* C28: analyze_main_files raises for no combination of present and absent
\* key files: main() always gets past it, each key file's entry says 'exists'
\* exactly when the file exists, and the assessment is reached.
C28_MainFilesNeverRaise ==
    tool = "analyze" =>
        /\ pc # "raised"
        /\ pc \in {"assessment", "done"} =>
              \A k \in 1..Len(KeyFiles) :
                  results.main_files[k].exists = (KeyFileState(tree, KeyFiles[k]) # "absent")

\* the assessment has given all four checks (never reached: a valid
\* pubspec.yaml is a pubspec.yaml that exists)
C28_FullHealth ==
    /\ tool = "analyze" /\ pc = "done"
    /\ results.assessment.score = 4

============================================================================
